---- MODULE Spec2Model ----
(***************************************************************************)
(* Reconciliation of generated skill and command files (openspec init /    *)
(* openspec update) against the persisted profile and delivery settings.   *)
(***************************************************************************)
EXTENDS Integers, Sequences, FiniteSets, TLC

(* ---------------------------------------------------------------------- *)
(* Bounds of the model                                                      *)
(* ---------------------------------------------------------------------- *)

\* Number of commands run on an arbitrary pre-existing project.
MaxSteps == 1

\* Number of artifacts present on disk in an arbitrary pre-existing project.
MaxInitArtifacts == 2

\* Number of commands (init, update, config change) run in sequence on a
\* project that starts with at most MaxSeqArtifacts artifacts.
MaxSeqSteps == 3

MaxSeqArtifacts == 1

\* Commands run on a project that holds legacy artifacts.
MaxLegacySteps == 2

\* Current artifacts such a project holds at the start.
MaxLegacyArtifacts == 1

\* Longest custom workflow list handed to the profile resolver.
MaxListLen == 3

\* Commands run on a project of the previous generation under any delivery.
MaxUpgradeSteps == 1

\* Removal calls applied in a row to one project, and the artifacts the
\* project holds before the first of them.
MaxRemovalSteps == 2
MaxRemovalArtifacts == 2

\* init commands run in a row on one project when the project configuration
\* file is followed.
MaxConfigSteps == 2

\* init commands run on a project whose tools are compared with what a
\* forced update would leave.
MaxAgreeSteps == 1

\* Longest workflow filter handed to the template catalog.
MaxFilterLen == 3

(* ---------------------------------------------------------------------- *)
(* Generic helpers                                                          *)
(* ---------------------------------------------------------------------- *)

Range(s) == {s[i] : i \in DOMAIN s}

RECURSIVE Count(_, _)
Count(s, x) ==
  IF s = <<>> THEN 0
  ELSE (IF Head(s) = x THEN 1 ELSE 0) + Count(Tail(s), x)

\* Array.prototype.filter: the members of s satisfying Test, in order.
Filter(s, Test(_)) == SelectSeq(s, Test)

\* [...new Set(s)]: first occurrences, in insertion order.
RECURSIVE Dedup(_)
Dedup(s) ==
  IF s = <<>> THEN <<>>
  ELSE LET front == Dedup(SubSeq(s, 1, Len(s) - 1))
           last  == s[Len(s)]
       IN  IF last \in Range(front) THEN front ELSE Append(front, last)

(* ---------------------------------------------------------------------- *)
(* Profiles (profiles.ts)                                                   *)
(* ---------------------------------------------------------------------- *)

\* Variant: the core list names a workflow the full list does not hold.
CoreWithOnboard == <<"propose", "explore", "apply", "archive", "onboard">>

CORE_WORKFLOWS == <<"propose", "explore", "apply", "archive">>

ALL_WORKFLOWS ==
  <<"propose", "explore", "new", "continue", "apply", "archive", "verify">>

WorkflowId == Range(ALL_WORKFLOWS)

\* An optional array: absent (undefined) or a sequence of ids.
Undefined == [defined |-> FALSE, ids |-> <<>>]
Some(ids) == [defined |-> TRUE, ids |-> ids]

\* Variant: the custom list is returned whatever the profile.
getCustomWorkflows(profile, customWorkflows) ==
  IF customWorkflows.defined THEN customWorkflows.ids ELSE <<>>

getProfileWorkflows(profile, customWorkflows) ==
  IF profile = "custom"
  THEN (IF customWorkflows.defined THEN customWorkflows.ids ELSE <<>>)
  ELSE CORE_WORKFLOWS

(* ---------------------------------------------------------------------- *)
(* Workflow -> skill directory tables (one copy per module in the source)   *)
(* ---------------------------------------------------------------------- *)

\* update.ts
WORKFLOW_TO_SKILL_DIR ==
  [w \in {"explore", "new", "continue", "apply", "archive", "verify", "propose"} |->
    CASE w = "explore"  -> "openspec-explore"
      [] w = "new"      -> "openspec-new-change"
      [] w = "continue" -> "openspec-continue-change"
      [] w = "apply"    -> "openspec-apply-change"
      [] w = "archive"  -> "openspec-archive-change"
      [] w = "verify"   -> "openspec-verify-change"
      [] w = "propose"  -> "openspec-propose"]

\* migration.ts
MIGRATION_WORKFLOW_TO_SKILL_DIR ==
  [w \in {"propose", "explore", "new", "continue", "apply", "archive", "verify"} |->
    CASE w = "propose"  -> "openspec-propose"
      [] w = "explore"  -> "openspec-explore"
      [] w = "new"      -> "openspec-new-change"
      [] w = "continue" -> "openspec-continue-change"
      [] w = "apply"    -> "openspec-apply-change"
      [] w = "archive"  -> "openspec-archive-change"
      [] w = "verify"   -> "openspec-verify-change"]

\* Object.entries(MIGRATION_WORKFLOW_TO_SKILL_DIR): keys in insertion order.
MIGRATION_WORKFLOW_ORDER ==
  <<"propose", "explore", "new", "continue", "apply", "archive", "verify">>

\* Variant: init's copy of the table lacks the newest workflow.
InitTableWithoutPropose ==
  [w \in {"explore", "new", "continue", "apply", "archive", "verify"} |->
    CASE w = "explore"  -> "openspec-explore"
      [] w = "new"      -> "openspec-new-change"
      [] w = "continue" -> "openspec-continue-change"
      [] w = "apply"    -> "openspec-apply-change"
      [] w = "archive"  -> "openspec-archive-change"
      [] w = "verify"   -> "openspec-verify-change"]

\* init.ts
INIT_WORKFLOW_TO_SKILL_DIR ==
  [w \in {"explore", "new", "continue", "apply", "archive", "verify", "propose"} |->
    CASE w = "explore"  -> "openspec-explore"
      [] w = "new"      -> "openspec-new-change"
      [] w = "continue" -> "openspec-continue-change"
      [] w = "apply"    -> "openspec-apply-change"
      [] w = "archive"  -> "openspec-archive-change"
      [] w = "verify"   -> "openspec-verify-change"
      [] w = "propose"  -> "openspec-propose"]

(* ---------------------------------------------------------------------- *)
(* Template catalog (shared/skill-generation.ts)                            *)
(* ---------------------------------------------------------------------- *)

SkillTemplateCatalog ==
  << [dirName |-> "openspec-explore",         workflowId |-> "explore"],
     [dirName |-> "openspec-new-change",      workflowId |-> "new"],
     [dirName |-> "openspec-continue-change", workflowId |-> "continue"],
     [dirName |-> "openspec-apply-change",    workflowId |-> "apply"],
     [dirName |-> "openspec-archive-change",  workflowId |-> "archive"],
     [dirName |-> "openspec-verify-change",   workflowId |-> "verify"],
     [dirName |-> "openspec-propose",         workflowId |-> "propose"] >>

CommandTemplateCatalog ==
  << [id |-> "explore"], [id |-> "new"], [id |-> "continue"], [id |-> "apply"],
     [id |-> "archive"], [id |-> "verify"], [id |-> "propose"] >>

\* Variant: the entries come in the order of the filter, one per filter item.
getSkillTemplatesInFilterOrder(workflowFilter) ==
  IF ~workflowFilter.defined THEN SkillTemplateCatalog
  ELSE LET RECURSIVE Pick(_)
           Pick(ids) ==
             IF ids = <<>> THEN <<>>
             ELSE LET Matches(entry) == entry.workflowId = Head(ids)
                  IN  Filter(SkillTemplateCatalog, Matches) \o Pick(Tail(ids))
       IN  Pick(workflowFilter.ids)

\* workflowFilter is an optional array of workflow ids.
getSkillTemplates(workflowFilter) ==
  IF ~workflowFilter.defined THEN SkillTemplateCatalog
  ELSE LET InFilter(entry) == entry.workflowId \in Range(workflowFilter.ids)
       IN  Filter(SkillTemplateCatalog, InFilter)

getCommandTemplates(workflowFilter) ==
  IF ~workflowFilter.defined THEN CommandTemplateCatalog
  ELSE LET InFilter(entry) == entry.id \in Range(workflowFilter.ids)
       IN  Filter(CommandTemplateCatalog, InFilter)

getCommandContents(workflowFilter) ==
  LET commandTemplates == getCommandTemplates(workflowFilter)
  IN  [i \in DOMAIN commandTemplates |-> [id |-> commandTemplates[i].id]]

SkillDirNames == {SkillTemplateCatalog[i].dirName : i \in DOMAIN SkillTemplateCatalog}

CommandIds == {CommandTemplateCatalog[i].id : i \in DOMAIN CommandTemplateCatalog}

(* ---------------------------------------------------------------------- *)
(* Tool registry and command adapters                                       *)
(* ---------------------------------------------------------------------- *)

\* skillsDir = "" stands for a tool without a base directory for artifacts.
AI_TOOLS ==
  << [value |-> "claude", name |-> "Claude Code", skillsDir |-> ".claude"],
     [value |-> "cursor", name |-> "Cursor",      skillsDir |-> ".cursor"],
     [value |-> "agents", name |-> "AGENTS.md",   skillsDir |-> ""] >>

ToolIds == {AI_TOOLS[i].value : i \in DOMAIN AI_TOOLS}

\* AI_TOOLS.find((t) => t.value === toolId)
FindTool(toolId) ==
  LET Matches(t) == t.value = toolId
  IN  Filter(AI_TOOLS, Matches)

HasSkillsDir(toolId) ==
  /\ FindTool(toolId) # <<>>
  /\ FindTool(toolId)[1].skillsDir # ""

ToolName(toolId) == FindTool(toolId)[1].name

getToolsWithSkillsDir ==
  LET Supported(t) == t.skillsDir # ""
      tools == Filter(AI_TOOLS, Supported)
  IN  [i \in DOMAIN tools |-> tools[i].value]

GenTools == Range(getToolsWithSkillsDir)

\* CommandAdapterRegistry.get(toolId) is defined for these tools.
AdapterTools == {"claude", "cursor"}

HasAdapter(toolId) == toolId \in AdapterTools

\* adapter.getFilePath(commandId): one file per tool and command id.
getFilePath(toolId, commandId) ==
  [tool |-> toolId, kind |-> "command", id |-> commandId]

SkillFile(toolId, dirName) ==
  [tool |-> toolId, kind |-> "skill", id |-> dirName]

(* ---------------------------------------------------------------------- *)
(* The project on disk                                                      *)
(* ---------------------------------------------------------------------- *)

OPENSPEC_VERSION == "1.0.0"

Versions == {"0.1.0", "1.0.0"}

\* A skill directory: absent, present without SKILL.md ("dir"), or holding a
\* SKILL.md without a readable generatedBy ("nomarker") or with a version.
SkillStates == {"absent", "dir", "nomarker"} \cup Versions

EmptyToolDisk ==
  [skills   |-> [d \in SkillDirNames |-> "absent"],
   commands |-> [c \in CommandIds |-> FALSE]]

EmptyDisk == [t \in GenTools |-> EmptyToolDisk]

SkillDirExists(d, toolId, dirName) == d[toolId].skills[dirName] # "absent"

SkillFileExists(d, toolId, dirName) ==
  d[toolId].skills[dirName] \notin {"absent", "dir"}

CommandFileExists(d, toolId, commandId) == d[toolId].commands[commandId]

Exists(d, file) ==
  IF file.kind = "skill" THEN SkillFileExists(d, file.tool, file.id)
  ELSE CommandFileExists(d, file.tool, file.id)

\* generateSkillContent embeds generatedBy: "<version>" in the front matter.
generateSkillContent(generatedByVersion) == generatedByVersion

\* FileSystemUtils.writeFile: creates the parent directories and the file.
writeFile(d, file, content) ==
  IF file.kind = "skill"
  THEN [d EXCEPT ![file.tool].skills[file.id] = content]
  ELSE [d EXCEPT ![file.tool].commands[file.id] = TRUE]

\* fs.promises.rm(skillDir, {recursive, force}) / fs.promises.unlink(file)
removePath(d, file) ==
  IF file.kind = "skill"
  THEN [d EXCEPT ![file.tool].skills[file.id] = "absent"]
  ELSE [d EXCEPT ![file.tool].commands[file.id] = FALSE]

(* ---------------------------------------------------------------------- *)
(* Version/status probe (shared/tool-detection.ts)                          *)
(* ---------------------------------------------------------------------- *)

\* Order in which the managed skill directories are looked up.
SKILL_NAMES ==
  [i \in DOMAIN SkillTemplateCatalog |-> SkillTemplateCatalog[i].dirName]

COMMAND_IDS ==
  [i \in DOMAIN CommandTemplateCatalog |-> CommandTemplateCatalog[i].id]

\* Marker parser: the generatedBy field of a file's header, or "null".
extractGeneratedByVersion(content) ==
  IF content \in {"absent", "dir", "nomarker", "command"} THEN "null" ELSE content

\* Tools with at least one SKILL.md of a managed skill.
getConfiguredTools(d) ==
  LET Configured(toolId) ==
        \E i \in DOMAIN SKILL_NAMES : SkillFileExists(d, toolId, SKILL_NAMES[i])
  IN  Filter(getToolsWithSkillsDir, Configured)

\* The first managed file found, skills before commands.
FirstManagedContent(d, toolId) ==
  LET HasSkill(dirName)  == SkillFileExists(d, toolId, dirName)
      HasCommand(id)     == HasAdapter(toolId) /\ CommandFileExists(d, toolId, id)
      skills   == Filter(SKILL_NAMES, HasSkill)
      commands == Filter(COMMAND_IDS, HasCommand)
  IN  IF skills # <<>> THEN d[toolId].skills[skills[1]]
      ELSE IF commands # <<>> THEN "command"
      ELSE "absent"

getToolVersionStatus(d, toolId, currentVersion) ==
  IF ~HasSkillsDir(toolId)
  THEN [toolId |-> toolId, configured |-> FALSE,
        generatedByVersion |-> "null", needsUpdate |-> FALSE]
  ELSE LET content == FirstManagedContent(d, toolId)
           generatedByVersion == extractGeneratedByVersion(content)
       IN  [toolId |-> toolId,
            configured |-> content # "absent",
            generatedByVersion |-> generatedByVersion,
            needsUpdate |-> generatedByVersion = "null"
                            \/ generatedByVersion # currentVersion]

(* ---------------------------------------------------------------------- *)
(* One-time migration of the persisted configuration (migration.ts)         *)
(* ---------------------------------------------------------------------- *)

\* GlobalConfig as stored: profile "unset" stands for a file without the key.
DefaultConfig == [profile |-> "unset", workflows |-> Undefined, delivery |-> "both"]

\* Variant: only the first tool is scanned.
scanFirstToolOnly(d, tools) ==
  LET Installed(workflowId) ==
        /\ tools # <<>>
        /\ HasSkillsDir(Head(tools))
        /\ SkillFileExists(d, Head(tools), MIGRATION_WORKFLOW_TO_SKILL_DIR[workflowId])
  IN  Filter(MIGRATION_WORKFLOW_ORDER, Installed)

\* tools: a sequence of tool ids.
scanInstalledWorkflowsShared(d, tools) ==
  LET RECURSIVE Scan(_)
      Scan(ts) ==
        IF ts = <<>> THEN <<>>
        ELSE LET toolId == Head(ts)
                 Installed(workflowId) ==
                   SkillFileExists(d, toolId, MIGRATION_WORKFLOW_TO_SKILL_DIR[workflowId])
             IN  (IF ~HasSkillsDir(toolId) THEN <<>>
                  ELSE Filter(MIGRATION_WORKFLOW_ORDER, Installed)) \o Scan(Tail(ts))
  IN  Dedup(Scan(tools))

\* Variant: with nothing installed the default profile is written out.
migrateOrPersistDefault(d, cfg, tools) ==
  IF cfg.profile # "unset" THEN cfg
  ELSE LET installedWorkflows == scanInstalledWorkflowsShared(d, tools)
       IN  IF installedWorkflows = <<>> THEN [cfg EXCEPT !.profile = "core"]
           ELSE [cfg EXCEPT !.profile = "custom",
                            !.workflows = Some(installedWorkflows)]

\* Variant: the profile key is not looked at.
migrateWheneverInstalled(d, cfg, tools) ==
  LET installedWorkflows == scanInstalledWorkflowsShared(d, tools)
  IN  IF installedWorkflows = <<>> THEN cfg
      ELSE [cfg EXCEPT !.profile = "custom",
                       !.workflows = Some(installedWorkflows)]

migrateIfNeeded(d, cfg, tools) ==
  IF cfg.profile # "unset" THEN cfg
  ELSE LET installedWorkflows == scanInstalledWorkflowsShared(d, tools)
       IN  IF installedWorkflows = <<>> THEN cfg
           ELSE [cfg EXCEPT !.profile = "custom",
                            !.workflows = Some(installedWorkflows)]

(* ---------------------------------------------------------------------- *)
(* Legacy artifacts (legacy-cleanup.ts)                                     *)
(* ---------------------------------------------------------------------- *)

\* The sentinel lines of a managed block inside a shared instruction file.
OPENSPEC_MARKERS ==
  [start |-> "<!-- OPENSPEC:START -->", end |-> "<!-- OPENSPEC:END -->"]

\* The legacy side of a project: the shared instruction file CLAUDE.md (its
\* lines, when it exists) and the tools that own a flat legacy command
\* directory (<tool dir>/commands/openspec).
NoLegacy == [hostExists |-> FALSE, host |-> <<>>, commandDirs |-> {}]

hasMarkers(lines) ==
  \E i, j \in DOMAIN lines :
    i < j /\ lines[i] = OPENSPEC_MARKERS.start /\ lines[j] = OPENSPEC_MARKERS.end

\* Variant: the block's lines go, the two sentinel lines stay.
removeBlockBody(lines) ==
  IF ~hasMarkers(lines) THEN lines
  ELSE LET s == CHOOSE i \in DOMAIN lines :
                  /\ lines[i] = OPENSPEC_MARKERS.start
                  /\ \A k \in 1..(i - 1) : lines[k] # OPENSPEC_MARKERS.start
           e == CHOOSE j \in DOMAIN lines :
                  /\ j > s /\ lines[j] = OPENSPEC_MARKERS.end
                  /\ \A k \in (s + 1)..(j - 1) : lines[k] # OPENSPEC_MARKERS.end
       IN  SubSeq(lines, 1, s) \o SubSeq(lines, e, Len(lines))

\* The lines from the start sentinel to the end sentinel, both included, are
\* cut out; the lines before and after stay as they are.
removeMarkerBlock(lines) ==
  IF ~hasMarkers(lines) THEN lines
  ELSE LET s == CHOOSE i \in DOMAIN lines :
                  /\ lines[i] = OPENSPEC_MARKERS.start
                  /\ \A k \in 1..(i - 1) : lines[k] # OPENSPEC_MARKERS.start
           e == CHOOSE j \in DOMAIN lines :
                  /\ j > s /\ lines[j] = OPENSPEC_MARKERS.end
                  /\ \A k \in (s + 1)..(j - 1) : lines[k] # OPENSPEC_MARKERS.end
       IN  SubSeq(lines, 1, s - 1) \o SubSeq(lines, e + 1, Len(lines))

detectLegacyArtifacts(lg) ==
  LET configFiles == IF lg.hostExists /\ hasMarkers(lg.host)
                     THEN {"CLAUDE.md"} ELSE {}
  IN  [configFiles |-> configFiles,
       slashCommandDirs |-> lg.commandDirs,
       hasLegacyArtifacts |-> configFiles # {} \/ lg.commandDirs # {}]

\* The marker block leaves the host file, which is never deleted; a legacy
\* command directory is deleted recursively.
cleanupLegacyArtifacts(lg, detection) ==
  [hostExists |-> lg.hostExists,
   host |-> IF "CLAUDE.md" \in detection.configFiles
            THEN removeMarkerBlock(lg.host) ELSE lg.host,
   commandDirs |-> lg.commandDirs \ detection.slashCommandDirs]

\* The tools implied by the detected legacy command directories.
getToolsFromLegacyArtifacts(detection) ==
  LET Implied(t) == t.value \in detection.slashCommandDirs
      tools == Filter(AI_TOOLS, Implied)
  IN  [i \in DOMAIN tools |-> tools[i].value]

(* ---------------------------------------------------------------------- *)
(* Update command (update.ts)                                               *)
(* ---------------------------------------------------------------------- *)

\* A tool's directory exists when anything was generated below it.
ToolDirExists(d, toolId) ==
  \/ \E dirName \in SkillDirNames : SkillDirExists(d, toolId, dirName)
  \/ \E id \in CommandIds : CommandFileExists(d, toolId, id)

toolHasAnyConfiguredCommand(d, toolId) ==
  /\ HasAdapter(toolId)
  /\ \E i \in DOMAIN COMMAND_IDS : Exists(d, getFilePath(toolId, COMMAND_IDS[i]))

getCommandConfiguredTools(d) ==
  LET HasDir(t) == t.skillsDir # "" /\ ToolDirExists(d, t.value)
      tools == Filter(AI_TOOLS, HasDir)
      ids == [i \in DOMAIN tools |-> tools[i].value]
      HasCommand(toolId) == toolHasAnyConfiguredCommand(d, toolId)
  IN  Filter(ids, HasCommand)

\* Variant: only the tools with a SKILL.md count as configured.
getSkillConfiguredTools(d) == getConfiguredTools(d)

\* Variant: every tool whose directory exists counts as configured.
getToolsWithDirectory(d) ==
  LET Detected(toolId) == ToolDirExists(d, toolId)
  IN  Filter(getToolsWithSkillsDir, Detected)

getConfiguredToolsForUpdate(d) ==
  Dedup(getConfiguredTools(d) \o getCommandConfiguredTools(d))

\* Variant: only the skills side is compared with the desired state.
hasSkillDriftOnly(d, toolId, profileWorkflows, shouldGenerateSkills, shouldGenerateCommands) ==
  IF ~HasSkillsDir(toolId) THEN FALSE
  ELSE IF shouldGenerateSkills
  THEN \E i \in DOMAIN profileWorkflows :
         /\ profileWorkflows[i] \in DOMAIN WORKFLOW_TO_SKILL_DIR
         /\ ~SkillFileExists(d, toolId, WORKFLOW_TO_SKILL_DIR[profileWorkflows[i]])
  ELSE \E i \in DOMAIN ALL_WORKFLOWS :
         /\ ALL_WORKFLOWS[i] \in DOMAIN WORKFLOW_TO_SKILL_DIR
         /\ SkillDirExists(d, toolId, WORKFLOW_TO_SKILL_DIR[ALL_WORKFLOWS[i]])

hasProfileOrDeliveryDrift(d, toolId, profileWorkflows, shouldGenerateSkills, shouldGenerateCommands) ==
  IF ~HasSkillsDir(toolId) THEN FALSE
  ELSE
    LET skillDrift ==
          IF shouldGenerateSkills
          THEN \E i \in DOMAIN profileWorkflows :
                 /\ profileWorkflows[i] \in DOMAIN WORKFLOW_TO_SKILL_DIR
                 /\ ~SkillFileExists(d, toolId, WORKFLOW_TO_SKILL_DIR[profileWorkflows[i]])
          ELSE \E i \in DOMAIN ALL_WORKFLOWS :
                 /\ ALL_WORKFLOWS[i] \in DOMAIN WORKFLOW_TO_SKILL_DIR
                 /\ SkillDirExists(d, toolId, WORKFLOW_TO_SKILL_DIR[ALL_WORKFLOWS[i]])
        commandDrift ==
          IF shouldGenerateCommands /\ HasAdapter(toolId)
          THEN \E i \in DOMAIN profileWorkflows :
                 ~Exists(d, getFilePath(toolId, profileWorkflows[i]))
          ELSE IF ~shouldGenerateCommands /\ HasAdapter(toolId)
          THEN \E i \in DOMAIN ALL_WORKFLOWS :
                 Exists(d, getFilePath(toolId, ALL_WORKFLOWS[i]))
          ELSE FALSE
    IN  skillDrift \/ commandDrift

\* Injected I/O faults of one run: the writes and the deletes that throw.
NoFault == [failWrites |-> {}, failDeletes |-> {}]

Event(op, file, ok) == [op |-> op, file |-> file, ok |-> ok]

\* FileSystemUtils.writeFile for each file in order; a failing write throws
\* and the remaining statements of the try block are skipped.
RECURSIVE WriteFiles(_, _, _, _)
WriteFiles(st, files, content, fault) ==
  IF files = <<>> \/ st.threw THEN st
  ELSE LET file == Head(files)
       IN  IF file \in fault.failWrites
           THEN [st EXCEPT !.threw = TRUE,
                           !.log = Append(@, Event("write", file, FALSE))]
           ELSE WriteFiles([st EXCEPT !.disk = writeFile(@, file, content),
                                      !.log = Append(@, Event("write", file, TRUE))],
                           Tail(files), content, fault)

\* Variant: every path the loop visits is counted.
RECURSIVE RemovePathsCountingVisits(_, _, _)
RemovePathsCountingVisits(st, files, fault) ==
  IF files = <<>> \/ st.threw THEN st
  ELSE LET file == Head(files)
           present == IF file.kind = "skill"
                      THEN SkillDirExists(st.disk, file.tool, file.id)
                      ELSE CommandFileExists(st.disk, file.tool, file.id)
           next == IF ~present THEN [st EXCEPT !.removed = @ + 1]
                   ELSE IF file \in fault.failDeletes
                   THEN [st EXCEPT !.log = Append(@, Event("delete", file, FALSE))]
                   ELSE [st EXCEPT !.disk = removePath(@, file),
                                   !.removed = @ + 1,
                                   !.log = Append(@, Event("delete", file, TRUE))]
       IN  RemovePathsCountingVisits(next, Tail(files), fault)

\* The removal loops: an existing path is removed; an error is ignored.
RECURSIVE RemovePaths(_, _, _)
RemovePaths(st, files, fault) ==
  IF files = <<>> \/ st.threw THEN st
  ELSE LET file == Head(files)
           present == IF file.kind = "skill"
                      THEN SkillDirExists(st.disk, file.tool, file.id)
                      ELSE CommandFileExists(st.disk, file.tool, file.id)
           next == IF ~present THEN st
                   ELSE IF file \in fault.failDeletes
                   THEN [st EXCEPT !.log = Append(@, Event("delete", file, FALSE))]
                   ELSE [st EXCEPT !.disk = removePath(@, file),
                                   !.removed = @ + 1,
                                   !.log = Append(@, Event("delete", file, TRUE))]
       IN  RemovePaths(next, Tail(files), fault)

removeSkillDirs(st, toolId, fault) ==
  LET Known(w) == w \in DOMAIN WORKFLOW_TO_SKILL_DIR
      workflows == Filter(ALL_WORKFLOWS, Known)
      files == [i \in DOMAIN workflows |->
                  SkillFile(toolId, WORKFLOW_TO_SKILL_DIR[workflows[i]])]
  IN  RemovePaths(st, files, fault)

removeCommandFiles(st, toolId, fault) ==
  IF ~HasAdapter(toolId) THEN st
  ELSE RemovePaths(st, [i \in DOMAIN ALL_WORKFLOWS |->
                          getFilePath(toolId, ALL_WORKFLOWS[i])], fault)

\* Variant: the tool's artifacts are cleared before the desired ones are
\* written, so artifacts outside the desired set are pruned.
UpdateToolPruning(st0, toolId, skillTemplates, commandContents, shouldGenerateSkills, shouldGenerateCommands, fault) ==
  LET cleared == removeCommandFiles(removeSkillDirs(st0, toolId, fault),
                                    toolId, fault)
      skillFiles == [i \in DOMAIN skillTemplates |->
                       SkillFile(toolId, skillTemplates[i].dirName)]
      st1 == IF shouldGenerateSkills
             THEN WriteFiles(cleared, skillFiles,
                             generateSkillContent(OPENSPEC_VERSION), fault)
             ELSE cleared
      commandFiles == [i \in DOMAIN commandContents |->
                         getFilePath(toolId, commandContents[i].id)]
  IN  IF shouldGenerateCommands /\ HasAdapter(toolId)
      THEN WriteFiles(st1, commandFiles, "command", fault)
      ELSE st1

\* Variant: the commands of a tool are handled before its skills.
UpdateToolCommandsFirst(st0, toolId, skillTemplates, commandContents, shouldGenerateSkills, shouldGenerateCommands, fault) ==
  LET commandFiles == [i \in DOMAIN commandContents |->
                         getFilePath(toolId, commandContents[i].id)]
      st1 == IF shouldGenerateCommands /\ HasAdapter(toolId)
             THEN WriteFiles(st0, commandFiles, "command", fault)
             ELSE st0
      st2 == IF ~shouldGenerateCommands /\ ~st1.threw
             THEN removeCommandFiles(st1, toolId, fault)
             ELSE st1
      skillFiles == [i \in DOMAIN skillTemplates |->
                       SkillFile(toolId, skillTemplates[i].dirName)]
      st3 == IF shouldGenerateSkills /\ ~st2.threw
             THEN WriteFiles(st2, skillFiles,
                             generateSkillContent(OPENSPEC_VERSION), fault)
             ELSE st2
  IN  IF ~shouldGenerateSkills /\ ~st3.threw
      THEN removeSkillDirs(st3, toolId, fault)
      ELSE st3

\* The body of the try block for one tool.
UpdateTool(st0, toolId, skillTemplates, commandContents, shouldGenerateSkills, shouldGenerateCommands, fault) ==
  LET skillFiles == [i \in DOMAIN skillTemplates |->
                       SkillFile(toolId, skillTemplates[i].dirName)]
      st1 == IF shouldGenerateSkills
             THEN WriteFiles(st0, skillFiles,
                             generateSkillContent(OPENSPEC_VERSION), fault)
             ELSE st0
      st2 == IF ~shouldGenerateSkills /\ ~st1.threw
             THEN removeSkillDirs(st1, toolId, fault)
             ELSE st1
      commandFiles == [i \in DOMAIN commandContents |->
                         getFilePath(toolId, commandContents[i].id)]
      st3 == IF shouldGenerateCommands /\ HasAdapter(toolId)
             THEN WriteFiles(st2, commandFiles, "command", fault)
             ELSE st2
      st4 == IF ~shouldGenerateCommands /\ ~st3.threw
             THEN removeCommandFiles(st3, toolId, fault)
             ELSE st3
  IN  st4

\* Variant: the catch block records nothing.
RecordUpdatedOnly(acc, toolId, st) ==
  [acc EXCEPT
     !.disk = st.disk,
     !.log = st.log,
     !.processed = Append(@, toolId),
     !.updatedTools = IF st.threw THEN @ ELSE Append(@, ToolName(toolId))]

\* Variant: the files of a failed tool are put back as they were.
RecordWithRollback(acc, toolId, st) ==
  [acc EXCEPT
     !.disk = IF st.threw THEN acc.disk ELSE st.disk,
     !.log = st.log,
     !.processed = Append(@, toolId),
     !.updatedTools = IF st.threw THEN @ ELSE Append(@, ToolName(toolId)),
     !.failedTools = IF st.threw THEN Append(@, ToolName(toolId)) ELSE @]

\* try { ...; updatedTools.push(tool.name) } catch { failedTools.push(...) }
RecordToolOutcome(acc, toolId, st) ==
  [acc EXCEPT
     !.disk = st.disk,
     !.log = st.log,
     !.processed = Append(@, toolId),
     !.updatedTools = IF st.threw THEN @ ELSE Append(@, ToolName(toolId)),
     !.failedTools = IF st.threw THEN Append(@, ToolName(toolId)) ELSE @]

\* Variant: the loop without the try/catch; the first failure ends the run.
RECURSIVE UpdateToolsUntilFailure(_, _, _, _, _, _, _)
UpdateToolsUntilFailure(acc, toolsToUpdate, skillTemplates, commandContents, shouldGenerateSkills, shouldGenerateCommands, fault) ==
  IF toolsToUpdate = <<>> THEN acc
  ELSE
    LET toolId == Head(toolsToUpdate)
        rest   == Tail(toolsToUpdate)
        st == UpdateTool([disk |-> acc.disk, log |-> acc.log,
                          removed |-> 0, threw |-> FALSE],
                         toolId, skillTemplates, commandContents,
                         shouldGenerateSkills, shouldGenerateCommands, fault)
    IN  IF ~HasSkillsDir(toolId)
        THEN UpdateToolsUntilFailure(acc, rest, skillTemplates, commandContents,
                                     shouldGenerateSkills, shouldGenerateCommands,
                                     fault)
        ELSE IF st.threw THEN RecordToolOutcome(acc, toolId, st)
        ELSE UpdateToolsUntilFailure(RecordToolOutcome(acc, toolId, st), rest,
                                     skillTemplates, commandContents,
                                     shouldGenerateSkills, shouldGenerateCommands,
                                     fault)

\* The per-tool loop: each tool ends in updatedTools or in failedTools.
RECURSIVE UpdateTools(_, _, _, _, _, _, _)
UpdateTools(acc, toolsToUpdate, skillTemplates, commandContents, shouldGenerateSkills, shouldGenerateCommands, fault) ==
  IF toolsToUpdate = <<>> THEN acc
  ELSE
    LET toolId == Head(toolsToUpdate)
        rest   == Tail(toolsToUpdate)
    IN  IF ~HasSkillsDir(toolId)
        THEN UpdateTools(acc, rest, skillTemplates, commandContents,
                         shouldGenerateSkills, shouldGenerateCommands, fault)
        ELSE
          LET st == UpdateTool([disk |-> acc.disk, log |-> acc.log,
                                removed |-> 0, threw |-> FALSE],
                               toolId, skillTemplates, commandContents,
                               shouldGenerateSkills, shouldGenerateCommands, fault)
          IN  UpdateTools(RecordToolOutcome(acc, toolId, st), rest,
                          skillTemplates, commandContents,
                          shouldGenerateSkills, shouldGenerateCommands, fault)

\* Variant: only drift selects a tool.
ToolsNeedingConfigSyncOnly(toolsNeedingVersionUpdate, toolsNeedingConfigSync) ==
  Dedup(toolsNeedingConfigSync)

\* 7. new Set([...toolsNeedingVersionUpdate, ...toolsNeedingConfigSync])
ToolsToUpdateSet(toolsNeedingVersionUpdate, toolsNeedingConfigSync) ==
  Dedup(toolsNeedingVersionUpdate \o toolsNeedingConfigSync)

\* The short-circuit "all tools up to date".
AllUpToDate(force, toolsToUpdateSet) == ~force /\ toolsToUpdateSet = <<>>

\* Variant: force does not widen the selection.
SelectOutdatedTools(force, configuredTools, toolsToUpdateSet) == toolsToUpdateSet

\* Variant: every configured tool is selected, forced or not.
SelectEveryConfiguredTool(force, configuredTools, toolsToUpdateSet) ==
  configuredTools

\* 10. all configured tools if force, otherwise only those needing an update
SelectToolsToUpdate(force, configuredTools, toolsToUpdateSet) ==
  IF force THEN configuredTools ELSE toolsToUpdateSet

\* Variant: the legacy upgrade writes the artifacts of the core workflows.
UpgradeLegacyToolCore(st0, toolId, fault) ==
  LET skillTemplates == getSkillTemplates(Some(CORE_WORKFLOWS))
      commandContents == getCommandContents(Some(CORE_WORKFLOWS))
      skillFiles == [i \in DOMAIN skillTemplates |->
                       SkillFile(toolId, skillTemplates[i].dirName)]
      commandFiles == [i \in DOMAIN commandContents |->
                         getFilePath(toolId, commandContents[i].id)]
      st1 == WriteFiles(st0, skillFiles,
                        generateSkillContent(OPENSPEC_VERSION), fault)
  IN  IF HasAdapter(toolId)
      THEN WriteFiles(st1, commandFiles, "command", fault)
      ELSE st1

\* The try block of upgradeLegacyTools for one tool: every skill and every
\* command of the catalog is written, whatever the profile and the delivery.
UpgradeLegacyTool(st0, toolId, fault) ==
  LET skillTemplates == getSkillTemplates(Undefined)
      commandContents == getCommandContents(Undefined)
      skillFiles == [i \in DOMAIN skillTemplates |->
                       SkillFile(toolId, skillTemplates[i].dirName)]
      commandFiles == [i \in DOMAIN commandContents |->
                         getFilePath(toolId, commandContents[i].id)]
      st1 == WriteFiles(st0, skillFiles,
                        generateSkillContent(OPENSPEC_VERSION), fault)
  IN  IF HasAdapter(toolId)
      THEN WriteFiles(st1, commandFiles, "command", fault)
      ELSE st1

\* for (const toolId of selectedTools) { try {...; newlyConfigured.push} catch {} }
RECURSIVE UpgradeLegacyToolsLoop(_, _, _)
UpgradeLegacyToolsLoop(acc, selectedTools, fault) ==
  IF selectedTools = <<>> THEN acc
  ELSE
    LET toolId == Head(selectedTools)
        st == IF ~HasSkillsDir(toolId)
              THEN [disk |-> acc.disk, log |-> acc.log,
                    removed |-> 0, threw |-> TRUE]
              ELSE UpgradeLegacyTool([disk |-> acc.disk, log |-> acc.log,
                                      removed |-> 0, threw |-> FALSE],
                                     toolId, fault)
        next == [disk |-> st.disk, log |-> st.log,
                 newlyConfigured |->
                   IF st.threw THEN acc.newlyConfigured
                   ELSE Append(acc.newlyConfigured, toolId)]
    IN  UpgradeLegacyToolsLoop(next, Tail(selectedTools), fault)

\* Variant: every valid legacy tool is set up, configured or not.
upgradeEveryLegacyTool(d, detection, fault) ==
  LET legacyTools == getToolsFromLegacyArtifacts(detection)
      Valid(t) == t \in Range(getToolsWithSkillsDir)
  IN  UpgradeLegacyToolsLoop([disk |-> d, log |-> <<>>, newlyConfigured |-> <<>>],
                             Filter(legacyTools, Valid), fault)

\* upgradeLegacyTools with --force or without a terminal: every valid legacy
\* tool that is not configured yet is selected.
upgradeLegacyTools(d, detection, fault) ==
  LET legacyTools == getToolsFromLegacyArtifacts(detection)
      configuredSet == Range(getConfiguredToolsForUpdate(d))
      Unconfigured(t) == t \notin configuredSet
      unconfiguredLegacyTools == Filter(legacyTools, Unconfigured)
      Valid(t) == t \in Range(getToolsWithSkillsDir)
      validUnconfiguredTools == Filter(unconfiguredLegacyTools, Valid)
      selectedTools == validUnconfiguredTools
  IN  UpgradeLegacyToolsLoop([disk |-> d, log |-> <<>>, newlyConfigured |-> <<>>],
                             selectedTools, fault)

\* Variant: the legacy artifacts are cleaned up and the legacy tools upgraded
\* whether or not --force is given.
updateCleanupUnasked(d, lg, force, fault) ==
  LET detection == detectLegacyArtifacts(lg)
      upgraded == upgradeLegacyTools(d, detection, fault)
  IN  IF detection.hasLegacyArtifacts
      THEN [disk |-> upgraded.disk,
            legacy |-> cleanupLegacyArtifacts(lg, detection),
            newlyConfigured |-> upgraded.newlyConfigured,
            log |-> upgraded.log, cleaned |-> TRUE]
      ELSE [disk |-> d, legacy |-> lg, newlyConfigured |-> <<>>,
            log |-> <<>>, cleaned |-> FALSE]

\* UpdateCommand.handleLegacyCleanup without a terminal: with --force the
\* legacy artifacts are cleaned up and the legacy tools upgraded; without it
\* the run warns and continues.
updateHandleLegacyCleanup(d, lg, force, fault) ==
  LET detection == detectLegacyArtifacts(lg)
      upgraded == upgradeLegacyTools(d, detection, fault)
  IN  IF detection.hasLegacyArtifacts /\ force
      THEN [disk |-> upgraded.disk,
            legacy |-> cleanupLegacyArtifacts(lg, detection),
            newlyConfigured |-> upgraded.newlyConfigured,
            log |-> upgraded.log, cleaned |-> TRUE]
      ELSE [disk |-> d, legacy |-> lg, newlyConfigured |-> <<>>,
            log |-> <<>>, cleaned |-> FALSE]

\* Variant: the run goes on without the openspec directory.
DirectoryAssumed(hasOpenspecDir) == TRUE

\* 1. FileSystemUtils.directoryExists(openspecPath)
directoryExists(hasOpenspecDir) == hasOpenspecDir

\* What one command did, kept for the summary it prints. legacyLog holds the
\* writes of the legacy upgrade, log those of the per-tool loop; migrated
\* tells whether the "Migrated: custom profile ..." line was printed,
\* extraWorkflows what the note "extra workflows not in profile" counts,
\* upToDate the tools listed as up to date, interactive whether init could
\* prompt, configStatus what createConfig returned, createdTools and
\* refreshedTools the two lists of init's summary, newTools the tools named
\* by "Detected new tool".
NoRun ==
  [op |-> "none", force |-> FALSE, outcome |-> "none",
   configuredTools |-> <<>>, needsUpdate |-> {}, drift |-> {},
   desiredWorkflows |-> <<>>,
   shouldGenerateSkills |-> FALSE, shouldGenerateCommands |-> FALSE,
   toolsToUpdate |-> <<>>, processed |-> <<>>,
   updatedTools |-> <<>>, failedTools |-> <<>>, log |-> <<>>,
   legacyCleaned |-> FALSE, newlyConfigured |-> <<>>, legacyLog |-> <<>>,
   migrated |-> FALSE, extraWorkflows |-> <<>>, upToDate |-> <<>>,
   interactive |-> FALSE, configStatus |-> "none",
   createdTools |-> <<>>, refreshedTools |-> <<>>, newTools |-> <<>>]

\* 13. detectNewTools: the tools whose directory exists and that are not
\* configured; each is named by a "Detected new tool" line.
detectNewTools(d, configuredTools) ==
  LET Detected(toolId) == ToolDirExists(d, toolId)
      availableTools == Filter(getToolsWithSkillsDir, Detected)
      NotConfigured(toolId) == toolId \notin Range(configuredTools)
  IN  Filter(availableTools, NotConfigured)

\* Variant: every installed workflow is counted as extra.
installedWorkflowsNote(d, configuredTools, profileWorkflows) ==
  LET KnownTool(id) == FindTool(id) # <<>>
  IN  scanInstalledWorkflowsShared(d, Filter(configuredTools, KnownTool))

\* 14. displayExtraWorkflowsNote: the installed workflows that are not in
\* the profile; the note is printed when there is one.
displayExtraWorkflowsNote(d, configuredTools, profileWorkflows) ==
  LET KnownTool(id) == FindTool(id) # <<>>
      installedWorkflows ==
        scanInstalledWorkflowsShared(d, Filter(configuredTools, KnownTool))
      NotInProfile(w) == w \notin Range(profileWorkflows)
  IN  Filter(installedWorkflows, NotInProfile)

\* 11.-14. the outcome of the per-tool loop goes into the summary.
UpdateFinish(cleanup, migrated, probed, toolsToUpdate, loop) ==
  [disk |-> loop.disk, config |-> migrated, legacy |-> cleanup.legacy,
   run |-> [probed EXCEPT !.outcome = "done",
                          !.toolsToUpdate = toolsToUpdate,
                          !.processed = loop.processed,
                          !.updatedTools = loop.updatedTools,
                          !.failedTools = loop.failedTools,
                          !.log = loop.log,
                          !.newTools = detectNewTools(loop.disk,
                                                      probed.configuredTools),
                          !.extraWorkflows =
                             displayExtraWorkflowsNote(loop.disk,
                                                       probed.configuredTools,
                                                       probed.desiredWorkflows)]]

\* 8.-10. the "up to date" return, the selection and the per-tool loop.
UpdateSelected(cleanup, cfg, migrated, configuredTools, desiredWorkflows, toolsNeedingVersionUpdate, toolsNeedingConfigSync, force, fault) ==
  LET shouldGenerateSkills == migrated.delivery # "commands"
      shouldGenerateCommands == migrated.delivery # "skills"
      toolsToUpdateSet ==
        ToolsToUpdateSet(toolsNeedingVersionUpdate, toolsNeedingConfigSync)
      \* 9.
      skillTemplates == IF shouldGenerateSkills
                        THEN getSkillTemplates(Some(desiredWorkflows)) ELSE <<>>
      commandContents == IF shouldGenerateCommands
                         THEN getCommandContents(Some(desiredWorkflows)) ELSE <<>>
      \* 10.
      toolsToUpdate == SelectToolsToUpdate(force, configuredTools, toolsToUpdateSet)
      \* 7.-8. the tools named by "All ... up to date" / "Already up to date"
      NotSelected(toolId) == toolId \notin Range(toolsToUpdateSet)
      toolsUpToDate == Filter(configuredTools, NotSelected)
      probed == [NoRun EXCEPT
                   !.upToDate = IF force THEN <<>> ELSE toolsUpToDate,
                   !.op = "update", !.force = force,
                   !.legacyCleaned = cleanup.cleaned,
                   !.newlyConfigured = cleanup.newlyConfigured,
                   !.legacyLog = cleanup.log,
                   !.migrated = (migrated # cfg),
                   !.configuredTools = configuredTools,
                   !.needsUpdate = Range(toolsNeedingVersionUpdate),
                   !.drift = Range(toolsNeedingConfigSync),
                   !.desiredWorkflows = desiredWorkflows,
                   !.shouldGenerateSkills = shouldGenerateSkills,
                   !.shouldGenerateCommands = shouldGenerateCommands]
  IN  IF AllUpToDate(force, toolsToUpdateSet)
      THEN [disk |-> cleanup.disk, config |-> migrated, legacy |-> cleanup.legacy,
            run |-> [probed EXCEPT
                       !.outcome = "upToDate",
                       !.newTools = detectNewTools(cleanup.disk, configuredTools),
                       !.extraWorkflows =
                          displayExtraWorkflowsNote(cleanup.disk, configuredTools,
                                                    desiredWorkflows)]]
      ELSE UpdateFinish(cleanup, migrated, probed, toolsToUpdate,
                        UpdateTools([disk |-> cleanup.disk, log |-> <<>>,
                                     processed |-> <<>>,
                                     updatedTools |-> <<>>, failedTools |-> <<>>],
                                    toolsToUpdate, skillTemplates, commandContents,
                                    shouldGenerateSkills, shouldGenerateCommands,
                                    fault))

\* 6.-7. the version status of each configured tool and its drift.
UpdateProbed(cleanup, cfg, migrated, configuredTools, desiredWorkflows, force, fault) ==
  LET d == cleanup.disk
      shouldGenerateSkills == migrated.delivery # "commands"
      shouldGenerateCommands == migrated.delivery # "skills"
      \* 6.
      commandConfiguredSet == Range(getCommandConfiguredTools(d))
      Status(toolId) ==
        LET status == getToolVersionStatus(d, toolId, OPENSPEC_VERSION)
        IN  IF ~status.configured /\ toolId \in commandConfiguredSet
            THEN [status EXCEPT !.configured = TRUE]
            ELSE status
      \* 7.
      NeedsVersionUpdate(toolId) == Status(toolId).needsUpdate
      NeedsConfigSync(toolId) ==
        hasProfileOrDeliveryDrift(d, toolId, desiredWorkflows,
                                  shouldGenerateSkills, shouldGenerateCommands)
  IN  UpdateSelected(cleanup, cfg, migrated, configuredTools, desiredWorkflows,
                     Filter(configuredTools, NeedsVersionUpdate),
                     Filter(configuredTools, NeedsConfigSync), force, fault)

\* 5. profile, delivery and the desired workflows of the (migrated) config.
UpdateConfigured(cleanup, cfg, migrated, configuredTools, force, fault) ==
  LET profile == IF migrated.profile = "unset" THEN "core" ELSE migrated.profile
      profileWorkflows == getProfileWorkflows(profile, migrated.workflows)
      InCatalog(w) == w \in Range(ALL_WORKFLOWS)
  IN  UpdateProbed(cleanup, cfg, migrated, configuredTools,
                   Filter(profileWorkflows, InCatalog), force, fault)

\* 3.-4. the "no configured tools" return and the one-time migration.
UpdateFound(cleanup, cfg, configuredTools, force, fault) ==
  LET newlyConfiguredTools == cleanup.newlyConfigured
      \* 4.
      allToolIds == Dedup(configuredTools \o newlyConfiguredTools)
      KnownTool(id) == FindTool(id) # <<>>
      allTools == Filter(allToolIds, KnownTool)
  IN  IF configuredTools = <<>> /\ newlyConfiguredTools = <<>>
      THEN [disk |-> cleanup.disk, config |-> cfg, legacy |-> cleanup.legacy,
            run |-> [NoRun EXCEPT
                       !.op = "update", !.force = force,
                       !.legacyCleaned = cleanup.cleaned,
                       !.newlyConfigured = cleanup.newlyConfigured,
                       !.legacyLog = cleanup.log,
                       !.outcome = "noTools"]]
      ELSE UpdateConfigured(cleanup, cfg,
                            migrateIfNeeded(cleanup.disk, cfg, allTools),
                            configuredTools, force, fault)

\* 2.-3. what follows the legacy cleanup: the configured tools are found.
UpdateCleaned(cleanup, cfg, force, fault) ==
  UpdateFound(cleanup, cfg, getConfiguredToolsForUpdate(cleanup.disk), force, fault)

\* UpdateCommand.execute: the project after the run and the run's record.
UpdateExecute(d0, cfg, lg, hasOpenspecDir, force, fault) ==
  IF ~directoryExists(hasOpenspecDir)
  THEN [disk |-> d0, config |-> cfg, legacy |-> lg,
        run |-> [NoRun EXCEPT !.op = "update", !.force = force,
                              !.outcome = "threw"]]
  ELSE UpdateCleaned(updateHandleLegacyCleanup(d0, lg, force, fault),
                     cfg, force, fault)

(* ---------------------------------------------------------------------- *)
(* Init command (init.ts)                                                   *)
(* ---------------------------------------------------------------------- *)

\* getAvailableTools: the tools whose directory exists in the project.
getAvailableTools(d) ==
  LET Detected(toolId) == ToolDirExists(d, toolId)
  IN  Filter(getToolsWithSkillsDir, Detected)

\* profileOverride is "undefined" when --profile is not given.
ValidProfileOverride(profileOverride) ==
  profileOverride \in {"undefined", "core", "custom"}

resolveProfile(profileOverride, cfg) ==
  IF profileOverride # "undefined" THEN profileOverride
  ELSE IF cfg.profile = "unset" THEN "core"
  ELSE cfg.profile

initRemoveSkillDirs(st, toolId, fault) ==
  LET Known(w) == w \in DOMAIN INIT_WORKFLOW_TO_SKILL_DIR
      workflows == Filter(ALL_WORKFLOWS, Known)
      files == [i \in DOMAIN workflows |->
                  SkillFile(toolId, INIT_WORKFLOW_TO_SKILL_DIR[workflows[i]])]
  IN  RemovePaths(st, files, fault)

\* Per-tool choice of the artifact kinds in init.
ToolGenerateSkills(toolId, shouldGenerateSkills) ==
  IF toolId = "claude" THEN FALSE ELSE shouldGenerateSkills

ToolGenerateCommands(toolId, shouldGenerateCommands) ==
  IF toolId = "claude" THEN TRUE ELSE shouldGenerateCommands

\* The body of the try block for one tool in generateSkillsAndCommands.
InitTool(st0, toolId, skillTemplates, commandContents, shouldGenerateSkills, shouldGenerateCommands, fault) ==
  LET toolGenerateSkills == ToolGenerateSkills(toolId, shouldGenerateSkills)
      toolGenerateCommands == ToolGenerateCommands(toolId, shouldGenerateCommands)
      toolSkillTemplates == IF toolGenerateSkills THEN skillTemplates ELSE <<>>
      skillFiles == [i \in DOMAIN toolSkillTemplates |->
                       SkillFile(toolId, toolSkillTemplates[i].dirName)]
      st1 == IF toolGenerateSkills
             THEN WriteFiles(st0, skillFiles,
                             generateSkillContent(OPENSPEC_VERSION), fault)
             ELSE st0
      st2 == IF ~toolGenerateSkills /\ ~st1.threw
             THEN initRemoveSkillDirs(st1, toolId, fault)
             ELSE st1
      commandFiles == [i \in DOMAIN commandContents |->
                         getFilePath(toolId, commandContents[i].id)]
      st3 == IF toolGenerateCommands /\ HasAdapter(toolId)
             THEN WriteFiles(st2, commandFiles, "command", fault)
             ELSE st2
      st4 == IF ~toolGenerateCommands /\ ~st3.threw
             THEN removeCommandFiles(st3, toolId, fault)
             ELSE st3
  IN  st4

\* getToolStates: the tools with at least one managed artifact file.
getToolStates(d) ==
  {toolId \in Range(getToolsWithSkillsDir) :
     getToolVersionStatus(d, toolId, OPENSPEC_VERSION).configured}

\* Variant: every tool that was set up counts as refreshed.
RecordInitRefreshed(acc, toolId, st) ==
  [acc EXCEPT
     !.disk = st.disk,
     !.log = st.log,
     !.processed = Append(@, toolId),
     !.updatedTools = IF st.threw THEN @ ELSE Append(@, ToolName(toolId)),
     !.refreshedTools = IF st.threw THEN @ ELSE Append(@, toolId),
     !.failedTools = IF st.threw THEN Append(@, ToolName(toolId)) ELSE @]

\* try { ...; (wasConfigured ? refreshedTools : createdTools).push(tool) }
\* catch { failedTools.push(...) }; updatedTools holds the names of both
\* lists in the order of processing.
RecordInitOutcome(acc, toolId, st) ==
  [acc EXCEPT
     !.disk = st.disk,
     !.log = st.log,
     !.processed = Append(@, toolId),
     !.updatedTools = IF st.threw THEN @ ELSE Append(@, ToolName(toolId)),
     !.createdTools =
        IF st.threw \/ toolId \in acc.wasConfigured THEN @ ELSE Append(@, toolId),
     !.refreshedTools =
        IF st.threw \/ toolId \notin acc.wasConfigured THEN @ ELSE Append(@, toolId),
     !.failedTools = IF st.threw THEN Append(@, ToolName(toolId)) ELSE @]

RECURSIVE InitTools(_, _, _, _, _, _, _)
InitTools(acc, tools, skillTemplates, commandContents, shouldGenerateSkills, shouldGenerateCommands, fault) ==
  IF tools = <<>> THEN acc
  ELSE
    LET toolId == Head(tools)
        st == InitTool([disk |-> acc.disk, log |-> acc.log,
                        removed |-> 0, threw |-> FALSE],
                       toolId, skillTemplates, commandContents,
                       shouldGenerateSkills, shouldGenerateCommands, fault)
    IN  InitTools(RecordInitOutcome(acc, toolId, st), Tail(tools),
                  skillTemplates, commandContents,
                  shouldGenerateSkills, shouldGenerateCommands, fault)

\* InitCommand.handleLegacyCleanup with --tools given (no prompt): with
\* --force the legacy artifacts are cleaned up, without it the process exits.
initHandleLegacyCleanup(lg, force) ==
  LET detection == detectLegacyArtifacts(lg)
  IN  IF ~detection.hasLegacyArtifacts
      THEN [legacy |-> lg, cleaned |-> FALSE, exited |-> FALSE]
      ELSE IF force
      THEN [legacy |-> cleanupLegacyArtifacts(lg, detection),
            cleaned |-> TRUE, exited |-> FALSE]
      ELSE [legacy |-> lg, cleaned |-> FALSE, exited |-> TRUE]

\* The results of generateSkillsAndCommands go into the summary.
InitFinish(cleanup, migrated, started, loop) ==
  [disk |-> loop.disk, config |-> migrated, legacy |-> cleanup.legacy,
   openspecDir |-> TRUE,
   run |-> [started EXCEPT !.outcome = "done",
                           !.processed = loop.processed,
                           !.updatedTools = loop.updatedTools,
                           !.createdTools = loop.createdTools,
                           !.refreshedTools = loop.refreshedTools,
                           !.failedTools = loop.failedTools,
                           !.log = loop.log]]

\* InitCommand.execute from the profile resolution on.
InitResolved(d, cfg, cleanup, migrated, hasOpenspecDir, selectedToolIds, force, profileOverride, fault) ==
  LET afterCleanup == [NoRun EXCEPT !.op = "init", !.force = force,
                                    !.legacyCleaned = cleanup.cleaned,
                                    !.migrated = (migrated # cfg)]
      profile == resolveProfile(profileOverride, migrated)
      delivery == migrated.delivery
      workflows == getProfileWorkflows(profile, migrated.workflows)
      shouldGenerateSkills == delivery # "commands"
      shouldGenerateCommands == delivery # "skills"
      skillTemplates == IF shouldGenerateSkills
                        THEN getSkillTemplates(Some(workflows)) ELSE <<>>
      commandContents == IF shouldGenerateCommands
                         THEN getCommandContents(Some(workflows)) ELSE <<>>
  IN  IF ~ValidProfileOverride(profileOverride)
      THEN [disk |-> d, config |-> migrated, legacy |-> cleanup.legacy,
            openspecDir |-> hasOpenspecDir,
            run |-> [afterCleanup EXCEPT !.outcome = "threw"]]
      ELSE InitFinish(cleanup, migrated,
                      [afterCleanup EXCEPT
                         !.desiredWorkflows = workflows,
                         !.shouldGenerateSkills = shouldGenerateSkills,
                         !.shouldGenerateCommands = shouldGenerateCommands,
                         !.toolsToUpdate = selectedToolIds],
                      InitTools([disk |-> d, log |-> <<>>, processed |-> <<>>,
                                 wasConfigured |-> getToolStates(d),
                                 createdTools |-> <<>>, refreshedTools |-> <<>>,
                                 updatedTools |-> <<>>, failedTools |-> <<>>],
                                selectedToolIds, skillTemplates, commandContents,
                                shouldGenerateSkills, shouldGenerateCommands,
                                fault))

\* InitCommand.execute from the tool detection and the migration on.
InitCleaned(d, cfg, lg, cleanup, hasOpenspecDir, selectedToolIds, force, profileOverride, fault) ==
  LET extendMode == hasOpenspecDir
      detectedTools == getAvailableTools(d)
  IN  IF cleanup.exited
      THEN [disk |-> d, config |-> cfg, legacy |-> lg,
            openspecDir |-> hasOpenspecDir,
            run |-> [NoRun EXCEPT !.op = "init", !.force = force,
                                  !.outcome = "exited"]]
      ELSE InitResolved(d, cfg, cleanup,
                        IF extendMode THEN migrateIfNeeded(d, cfg, detectedTools)
                        ELSE cfg,
                        hasOpenspecDir, selectedToolIds, force, profileOverride,
                        fault)

\* InitCommand.execute with --tools <selectedToolIds>.
InitExecute(d, cfg, lg, hasOpenspecDir, selectedToolIds, force, profileOverride, fault) ==
  InitCleaned(d, cfg, lg, initHandleLegacyCleanup(lg, force), hasOpenspecDir,
              selectedToolIds, force, profileOverride, fault)

\* openspec/config.yaml and openspec/config.yml: "absent", "user" for a file
\* the user wrote, "default" for serializeConfig({ schema: DEFAULT_SCHEMA }).
NoProjectConfig == [yaml |-> "absent", yml |-> "absent"]

ConfigFile == [kind |-> "config", tool |-> "none", id |-> "config.yaml"]

\* Variant: config.yaml is written whenever init completes.
createConfigAlways(pc, canPrompt, force, fault) ==
  IF ConfigFile \in fault.failWrites
  THEN [projectConfig |-> pc, status |-> "skipped"]
  ELSE [projectConfig |-> [pc EXCEPT !.yaml = "default"], status |-> "created"]

\* Variant: config.yaml is created without a terminal and without --force.
createConfigUnasked(pc, canPrompt, force, fault) ==
  IF pc.yaml # "absent" \/ pc.yml # "absent"
  THEN [projectConfig |-> pc, status |-> "exists"]
  ELSE IF ConfigFile \in fault.failWrites
  THEN [projectConfig |-> pc, status |-> "skipped"]
  ELSE [projectConfig |-> [pc EXCEPT !.yaml = "default"], status |-> "created"]

\* InitCommand.createConfig
createConfig(pc, canPrompt, force, fault) ==
  IF pc.yaml # "absent" \/ pc.yml # "absent"
  THEN [projectConfig |-> pc, status |-> "exists"]
  ELSE IF ~canPrompt /\ ~force
  THEN [projectConfig |-> pc, status |-> "skipped"]
  ELSE IF ConfigFile \in fault.failWrites
  THEN [projectConfig |-> pc, status |-> "skipped"]
  ELSE [projectConfig |-> [pc EXCEPT !.yaml = "default"], status |-> "created"]

\* The end of InitCommand.execute: a run that got through the generation
\* creates config.yaml if needed and prints the summary.
InitCompleted(r, pc, canPrompt, force, fault) ==
  IF r.run.outcome # "done"
  THEN [result |-> [r EXCEPT !.run.interactive = canPrompt],
        projectConfig |-> pc]
  ELSE [result |-> [r EXCEPT
                      !.run.interactive = canPrompt,
                      !.run.configStatus =
                         createConfig(pc, canPrompt, force, fault).status],
        projectConfig |-> createConfig(pc, canPrompt, force, fault).projectConfig]

\* InitCommand.handleLegacyCleanup in a terminal: with --force the legacy
\* artifacts are cleaned up, without it the user is asked and the process
\* exits when the answer is no.
initPromptLegacyCleanup(lg, force, shouldCleanup) ==
  LET detection == detectLegacyArtifacts(lg)
  IN  IF ~detection.hasLegacyArtifacts
      THEN [legacy |-> lg, cleaned |-> FALSE, exited |-> FALSE]
      ELSE IF force \/ shouldCleanup
      THEN [legacy |-> cleanupLegacyArtifacts(lg, detection),
            cleaned |-> TRUE, exited |-> FALSE]
      ELSE [legacy |-> lg, cleaned |-> FALSE, exited |-> TRUE]

\* InitCommand.execute in a terminal from the profile resolution on: the
\* confirmation of a custom profile and the tool selection prompt.
InitPrompted(d, cfg, cleanup, migrated, hasOpenspecDir, selectedToolIds, force, profileOverride, proceed, fault) ==
  LET profile == resolveProfile(profileOverride, migrated)
      workflows == getProfileWorkflows(profile, migrated.workflows)
      stopped == [NoRun EXCEPT !.op = "init", !.force = force,
                               !.legacyCleaned = cleanup.cleaned,
                               !.migrated = (migrated # cfg)]
  IN  IF ~ValidProfileOverride(profileOverride)
      THEN InitResolved(d, cfg, cleanup, migrated, hasOpenspecDir,
                        selectedToolIds, force, profileOverride, fault)
      ELSE IF profile = "custom" /\ workflows # <<>> /\ ~proceed
      THEN [disk |-> d, config |-> migrated, legacy |-> cleanup.legacy,
            openspecDir |-> hasOpenspecDir,
            run |-> [stopped EXCEPT !.outcome = "declined"]]
      ELSE IF selectedToolIds = <<>>
      THEN [disk |-> d, config |-> migrated, legacy |-> cleanup.legacy,
            openspecDir |-> hasOpenspecDir,
            run |-> [stopped EXCEPT !.outcome = "threw"]]
      ELSE InitResolved(d, cfg, cleanup, migrated, hasOpenspecDir,
                        selectedToolIds, force, profileOverride, fault)

\* InitCommand.execute in a terminal, without --tools: shouldCleanup and
\* proceed are the answers to the two confirmations, selectedToolIds the
\* answer to the tool selection.
InitInteractiveExecute(d, cfg, lg, cleanup, hasOpenspecDir, selectedToolIds, force, profileOverride, proceed, fault) ==
  IF cleanup.exited
  THEN [disk |-> d, config |-> cfg, legacy |-> lg,
        openspecDir |-> hasOpenspecDir,
        run |-> [NoRun EXCEPT !.op = "init", !.force = force,
                              !.outcome = "cancelled"]]
  ELSE InitPrompted(d, cfg, cleanup,
                    IF hasOpenspecDir
                    THEN migrateIfNeeded(d, cfg, getAvailableTools(d))
                    ELSE cfg,
                    hasOpenspecDir, selectedToolIds, force, profileOverride,
                    proceed, fault)

(* ---------------------------------------------------------------------- *)
(* Inputs drawn by the model                                                *)
(* ---------------------------------------------------------------------- *)

\* Workflows whose artifacts a pre-existing project may hold.
InitWorkflows == {"explore", "new"}

\* Custom workflow lists a user may persist.
CustomLists == { <<>>, <<"new">>, <<"explore", "new", "propose">> }

Deliveries == {"both", "skills", "commands"}

Configs ==
  { [profile |-> "core", workflows |-> Undefined, delivery |-> dl] : dl \in Deliveries }
  \cup
  { [profile |-> "custom", workflows |-> Some(l), delivery |-> dl] :
      l \in CustomLists, dl \in Deliveries }

InitConfigs ==
  Configs \cup
  { [profile |-> "unset", workflows |-> Undefined, delivery |-> dl] : dl \in Deliveries }

FilesOf(toolId) ==
  {SkillFile(toolId, dirName) : dirName \in SkillDirNames}
  \cup {getFilePath(toolId, id) : id \in CommandIds}

\* I/O faults of one run: one tool's writes (all of them, or its command
\* files) or one tool's deletes fail.
Faults ==
  {NoFault}
  \cup { [failWrites |-> FilesOf(t), failDeletes |-> {}] : t \in GenTools }
  \cup { [failWrites |-> {getFilePath(t, id) : id \in CommandIds},
          failDeletes |-> {}] : t \in GenTools }
  \cup { [failWrites |-> {}, failDeletes |-> FilesOf(t)] : t \in GenTools }

\* I/O faults of one init run: one tool's writes fail.
InitFaults ==
  {NoFault}
  \cup { [failWrites |-> FilesOf(t), failDeletes |-> {}] : t \in GenTools }

\* --tools values
ToolSelections ==
  { <<>>, <<"claude">>, <<"cursor">>, <<"claude", "cursor">> }

ProfileOverrides == {"undefined", "core", "custom", "minimal"}

\* Artifacts a pre-existing project may hold: at most MaxInitArtifacts of them.
InitSlots ==
  {SkillFile(t, WORKFLOW_TO_SKILL_DIR[w]) : t \in GenTools, w \in InitWorkflows}
  \cup {getFilePath(t, w) : t \in GenTools, w \in InitWorkflows}

PlaceArtifact(d, file, content) ==
  IF file.kind = "skill"
  THEN [d EXCEPT ![file.tool].skills[file.id] = content]
  ELSE [d EXCEPT ![file.tool].commands[file.id] = TRUE]

RECURSIVE DisksWith(_, _)
DisksWith(d, n) ==
  IF n = 0 THEN {d}
  ELSE {d} \cup
       UNION { DisksWith(PlaceArtifact(d, file, content), n - 1) :
                 file \in InitSlots,
                 content \in (SkillStates \ {"absent"}) }

InitDisks == DisksWith(EmptyDisk, MaxInitArtifacts)

\* Contents of CLAUDE.md in a project of the previous generation: the
\* managed block alone, or the block between lines of the user.
HostFiles ==
  { << OPENSPEC_MARKERS.start, "# OpenSpec Instructions", OPENSPEC_MARKERS.end >>,
    << "# My Project", OPENSPEC_MARKERS.start, "# OpenSpec Instructions",
       OPENSPEC_MARKERS.end, "More user content after markers." >> }

\* Legacy sides of a project that hold at least one legacy artifact.
LegacyProjects ==
  { [hostExists |-> TRUE, host |-> h, commandDirs |-> {}] : h \in HostFiles }
  \cup { [hostExists |-> FALSE, host |-> <<>>, commandDirs |-> {"claude"}],
         [hostExists |-> TRUE,
          host |-> << "# My Project", OPENSPEC_MARKERS.start,
                      "# OpenSpec Instructions", OPENSPEC_MARKERS.end,
                      "More user content after markers." >>,
          commandDirs |-> {"claude", "cursor", "agents"}] }

\* --force values of init: it only decides the legacy cleanup.
InitForces(lg) ==
  IF detectLegacyArtifacts(lg).hasLegacyArtifacts THEN BOOLEAN ELSE {FALSE}

(* ---------------------------------------------------------------------- *)
(* State machine                                                            *)
(* ---------------------------------------------------------------------- *)

VARIABLES
  disk,         \* generated artifacts per tool
  config,       \* the persisted GlobalConfig
  legacy,       \* artifacts of the previous generation
  openspecDir,  \* whether <project>/openspec exists
  projectConfig, \* openspec/config.yaml and openspec/config.yml
  lastRun,      \* record of the last command
  budget        \* number of commands still to run

vars == <<disk, config, legacy, openspecDir, projectConfig, lastRun, budget>>

\* Any pre-existing project, followed by MaxSteps commands.
InitAny ==
  /\ disk \in InitDisks
  /\ config \in InitConfigs
  /\ legacy = NoLegacy
  /\ openspecDir \in BOOLEAN
  /\ lastRun = NoRun
  /\ budget = MaxSteps
  /\ projectConfig = NoProjectConfig

\* A fresh project, or one holding at most MaxSeqArtifacts artifacts, under
\* the default delivery, followed by MaxSeqSteps commands.
InitSeq ==
  /\ disk \in DisksWith(EmptyDisk, MaxSeqArtifacts)
  /\ config \in {c \in InitConfigs : c.delivery = "both"}
  /\ legacy = NoLegacy
  /\ openspecDir = (disk # EmptyDisk)
  /\ lastRun = NoRun
  /\ budget = MaxSeqSteps
  /\ projectConfig = NoProjectConfig

\* A project of the previous generation holding at most MaxLegacyArtifacts
\* current artifacts, followed by MaxLegacySteps commands.
InitLegacy ==
  /\ disk \in DisksWith(EmptyDisk, MaxLegacyArtifacts)
  /\ config \in {c \in InitConfigs : c.delivery = "both"}
  /\ legacy \in LegacyProjects
  /\ openspecDir \in BOOLEAN
  /\ lastRun = NoRun
  /\ budget = MaxLegacySteps
  /\ projectConfig = NoProjectConfig

Init == InitAny \/ InitSeq \/ InitLegacy

\* openspec update [--force]
Update(force, fault) ==
  /\ budget > 0
  /\ \E r \in {UpdateExecute(disk, config, legacy, openspecDir, force, fault)} :
       /\ disk' = r.disk
       /\ config' = r.config
       /\ legacy' = r.legacy
       /\ lastRun' = r.run
  /\ budget' = budget - 1
  /\ UNCHANGED <<openspecDir, projectConfig>>

\* openspec init --tools <tools> [--profile <p>] [--force]
InitCmd(tools, force, profileOverride, fault) ==
  /\ budget > 0
  /\ \E r \in {InitCompleted(InitExecute(disk, config, legacy, openspecDir,
                                          tools, force, profileOverride, fault),
                              projectConfig, FALSE, force, fault)} :
       /\ disk' = r.result.disk
       /\ config' = r.result.config
       /\ legacy' = r.result.legacy
       /\ openspecDir' = r.result.openspecDir
       /\ lastRun' = r.result.run
       /\ projectConfig' = r.projectConfig
  /\ budget' = budget - 1

\* openspec init [--profile <p>] [--force] in a terminal: the user answers
\* the prompts.
InitInteractive(tools, force, profileOverride, shouldCleanup, proceed, fault) ==
  /\ budget > 0
  /\ \E r \in {InitCompleted(
                  InitInteractiveExecute(disk, config, legacy,
                     initPromptLegacyCleanup(legacy, force, shouldCleanup),
                     openspecDir, tools, force, profileOverride, proceed, fault),
                  projectConfig, TRUE, force, fault)} :
       /\ disk' = r.result.disk
       /\ config' = r.result.config
       /\ legacy' = r.result.legacy
       /\ openspecDir' = r.result.openspecDir
       /\ lastRun' = r.result.run
       /\ projectConfig' = r.projectConfig
  /\ budget' = budget - 1

\* openspec config: between two commands the user persists another profile
\* or delivery.
ConfigSet(c) ==
  /\ budget > 1
  /\ lastRun.op \in {"update", "init"}
  /\ c # config
  /\ config' = c
  /\ lastRun' = [NoRun EXCEPT !.op = "config", !.outcome = "done"]
  /\ budget' = budget - 1
  /\ UNCHANGED <<disk, legacy, openspecDir, projectConfig>>

\* After a run that migrated the configuration the user copies a skill of
\* another workflow into a tool's skills directory by hand.
AddArtifact(file) ==
  /\ budget > 1
  /\ lastRun.op \in {"update", "init"} /\ lastRun.migrated
  /\ file.kind = "skill" /\ ~SkillDirExists(disk, file.tool, file.id)
  /\ disk' = PlaceArtifact(disk, file, OPENSPEC_VERSION)
  /\ lastRun' = [NoRun EXCEPT !.op = "edit", !.outcome = "done"]
  /\ budget' = budget - 1
  /\ UNCHANGED <<config, legacy, openspecDir, projectConfig>>

Next ==
  \/ \E force \in BOOLEAN, fault \in Faults : Update(force, fault)
  \/ \E tools \in ToolSelections, force \in InitForces(legacy),
        profileOverride \in ProfileOverrides, fault \in InitFaults :
       InitCmd(tools, force, profileOverride, fault)
  \/ \E c \in Configs : ConfigSet(c)
  \/ \E file \in InitSlots : AddArtifact(file)

Spec == Init /\ [][Next]_vars

\* The three families of projects on their own. A project of the first or
\* of the third family sees commands only: the user edits nothing between
\* them.
NextCommands ==
  \/ \E force \in BOOLEAN, fault \in Faults : Update(force, fault)
  \/ \E tools \in ToolSelections, force \in InitForces(legacy),
        profileOverride \in ProfileOverrides, fault \in InitFaults :
       InitCmd(tools, force, profileOverride, fault)

\* Any pre-existing project and one command.
SpecAny == InitAny /\ [][NextCommands]_vars

\* A fresh or nearly fresh project and a sequence of commands and edits.
SpecSeq == InitSeq /\ [][Next]_vars

\* A project of the previous generation and its first commands.
SpecLegacy == InitLegacy /\ [][NextCommands]_vars

(* ---------------------------------------------------------------------- *)
(* The profile resolver on its own                                          *)
(* ---------------------------------------------------------------------- *)

\* Profile values handed to the resolver: the two profiles and strings that
\* are neither.
ProfileInputs == {"core", "custom", "minimal", "Custom"}

\* Ids a custom list may hold; the resolver does not look at them.
ListIds == {"new", "apply", "not-a-workflow"}

RECURSIVE ListsUpTo(_)
ListsUpTo(n) ==
  IF n = 0 THEN { <<>> }
  ELSE ListsUpTo(n - 1)
       \cup { Append(l, x) : l \in {m \in ListsUpTo(n - 1) : Len(m) = n - 1},
                             x \in ListIds }

\* A persisted profile and custom list, nothing resolved yet.
InitProfiles ==
  /\ disk = EmptyDisk
  /\ legacy = NoLegacy
  /\ openspecDir = FALSE
  /\ lastRun = NoRun
  /\ budget = 1
  /\ projectConfig = NoProjectConfig
  /\ config \in { [profile |-> p, workflows |-> w, delivery |-> "both"] :
                    p \in ProfileInputs,
                    w \in {Undefined} \cup {Some(l) : l \in ListsUpTo(MaxListLen)} }

\* getProfileWorkflows(globalConfig.profile, globalConfig.workflows)
ResolveWorkflows ==
  /\ budget > 0
  /\ lastRun' = [NoRun EXCEPT
                   !.op = "resolve", !.outcome = "done",
                   !.desiredWorkflows =
                      getProfileWorkflows(config.profile, config.workflows)]
  /\ budget' = budget - 1
  /\ UNCHANGED <<disk, config, legacy, openspecDir, projectConfig>>

NextProfiles == ResolveWorkflows

SpecProfiles == InitProfiles /\ [][NextProfiles]_vars

(* ---------------------------------------------------------------------- *)
(* Updates of a project of the previous generation under every delivery     *)
(* ---------------------------------------------------------------------- *)

\* A project of the previous generation holding at most MaxLegacyArtifacts
\* current artifacts, under any persisted profile and delivery, followed by
\* MaxUpgradeSteps updates.
InitUpgrade ==
  /\ disk \in DisksWith(EmptyDisk, MaxLegacyArtifacts)
  /\ config \in InitConfigs
  /\ legacy \in LegacyProjects
  /\ openspecDir \in BOOLEAN
  /\ lastRun = NoRun
  /\ budget = MaxUpgradeSteps
  /\ projectConfig = NoProjectConfig

NextUpgrade == \E force \in BOOLEAN, fault \in Faults : Update(force, fault)

SpecUpgrade == InitUpgrade /\ [][NextUpgrade]_vars

(* ---------------------------------------------------------------------- *)
(* The removal functions on their own                                       *)
(* ---------------------------------------------------------------------- *)

\* Projects handed to a removal call: at most MaxRemovalArtifacts artifacts
\* of any state, or one tool holding the whole catalog.
RemovalDisks ==
  DisksWith(EmptyDisk, MaxRemovalArtifacts)
  \cup { [EmptyDisk EXCEPT
            ![t] = [skills |-> [dirName \in SkillDirNames |-> OPENSPEC_VERSION],
                    commands |-> [id \in CommandIds |-> TRUE]]] : t \in GenTools }

\* I/O faults of a removal call: the removal of one path fails, or that of
\* every path of one tool.
RemovalFaults ==
  {NoFault}
  \cup { [failWrites |-> {}, failDeletes |-> {file}] : file \in InitSlots }
  \cup { [failWrites |-> {}, failDeletes |-> FilesOf(t)] : t \in GenTools }

\* The record of one removal call: the function, the tool, the value it
\* returned and whether it raised an error.
NoRemoval ==
  [op |-> "none", tool |-> "none", removed |-> 0, threw |-> FALSE, log |-> <<>>]

RemovalStart(d) == [disk |-> d, log |-> <<>>, removed |-> 0, threw |-> FALSE]

RemovalRecord(op, toolId, st) ==
  [op |-> op, tool |-> toolId, removed |-> st.removed, threw |-> st.threw,
   log |-> st.log]

InitRemoval ==
  /\ disk \in RemovalDisks
  /\ config = DefaultConfig
  /\ legacy = NoLegacy
  /\ openspecDir = TRUE
  /\ lastRun = NoRemoval
  /\ budget = MaxRemovalSteps
  /\ projectConfig = NoProjectConfig

\* UpdateCommand.removeSkillDirs(<skills directory of toolId>)
CallRemoveSkillDirs(toolId, fault) ==
  /\ budget > 0
  /\ \E st \in {removeSkillDirs(RemovalStart(disk), toolId, fault)} :
       /\ disk' = st.disk
       /\ lastRun' = RemovalRecord("removeSkillDirs", toolId, st)
  /\ budget' = budget - 1
  /\ UNCHANGED <<config, legacy, openspecDir, projectConfig>>

\* InitCommand.removeSkillDirs(<skills directory of toolId>)
CallInitRemoveSkillDirs(toolId, fault) ==
  /\ budget > 0
  /\ \E st \in {initRemoveSkillDirs(RemovalStart(disk), toolId, fault)} :
       /\ disk' = st.disk
       /\ lastRun' = RemovalRecord("initRemoveSkillDirs", toolId, st)
  /\ budget' = budget - 1
  /\ UNCHANGED <<config, legacy, openspecDir, projectConfig>>

\* removeCommandFiles(projectPath, toolId), the same in both commands
CallRemoveCommandFiles(toolId, fault) ==
  /\ budget > 0
  /\ \E st \in {removeCommandFiles(RemovalStart(disk), toolId, fault)} :
       /\ disk' = st.disk
       /\ lastRun' = RemovalRecord("removeCommandFiles", toolId, st)
  /\ budget' = budget - 1
  /\ UNCHANGED <<config, legacy, openspecDir, projectConfig>>

NextRemoval ==
  \/ \E toolId \in GenTools, fault \in RemovalFaults :
       CallRemoveSkillDirs(toolId, fault)
  \/ \E toolId \in GenTools, fault \in RemovalFaults :
       CallInitRemoveSkillDirs(toolId, fault)
  \/ \E toolId \in GenTools, fault \in RemovalFaults :
       CallRemoveCommandFiles(toolId, fault)

SpecRemoval == InitRemoval /\ [][NextRemoval]_vars

(* ---------------------------------------------------------------------- *)
(* init and the project configuration file                                  *)
(* ---------------------------------------------------------------------- *)

\* The two files before init: none, one of them or both; config.yaml may
\* be the one an earlier init created.
ProjectConfigs ==
  [yaml : {"absent", "user", "default"}, yml : {"absent", "user"}]

\* The writes of cursor fail, or the write of config.yaml fails.
ConfigFaults ==
  {NoFault,
   [failWrites |-> FilesOf("cursor"), failDeletes |-> {}],
   [failWrites |-> {ConfigFile}, failDeletes |-> {}]}

\* --tools values and answers to the tool selection prompt
ConfigToolSelections == { <<>>, <<"cursor">> }

ConfigProfileOverrides == {"undefined", "minimal"}

\* A project with or without the openspec directory, holding nothing or one
\* skill of cursor, and possibly the legacy command directory of claude; the
\* configuration files can only exist below openspec/.
InitProjectConfig ==
  /\ disk \in {EmptyDisk,
               PlaceArtifact(EmptyDisk,
                             SkillFile("cursor", WORKFLOW_TO_SKILL_DIR["new"]),
                             OPENSPEC_VERSION)}
  /\ config \in {DefaultConfig,
                 [profile |-> "custom", workflows |-> Some(<<"new">>),
                  delivery |-> "both"]}
  /\ legacy \in {NoLegacy,
                 [hostExists |-> FALSE, host |-> <<>>, commandDirs |-> {"claude"}]}
  /\ openspecDir \in BOOLEAN
  /\ projectConfig \in {pc \in ProjectConfigs :
                          ~openspecDir => pc = NoProjectConfig}
  /\ lastRun = NoRun
  /\ budget = MaxConfigSteps

NextProjectConfig ==
  \/ \E tools \in ConfigToolSelections, force \in BOOLEAN,
        profileOverride \in ConfigProfileOverrides, fault \in ConfigFaults :
       InitCmd(tools, force, profileOverride, fault)
  \/ \E tools \in ConfigToolSelections, force \in BOOLEAN,
        profileOverride \in ConfigProfileOverrides,
        shouldCleanup \in BOOLEAN, proceed \in BOOLEAN, fault \in ConfigFaults :
       InitInteractive(tools, force, profileOverride, shouldCleanup, proceed, fault)

SpecProjectConfig == InitProjectConfig /\ [][NextProjectConfig]_vars

(* ---------------------------------------------------------------------- *)
(* init on an initialised project, for the comparison with update           *)
(* ---------------------------------------------------------------------- *)

\* Any project with the openspec directory and no legacy artifact, under
\* any persisted configuration, followed by MaxAgreeSteps inits without
\* --profile and without --force.
InitAgree ==
  /\ disk \in InitDisks
  /\ config \in InitConfigs
  /\ legacy = NoLegacy
  /\ openspecDir = TRUE
  /\ projectConfig = NoProjectConfig
  /\ lastRun = NoRun
  /\ budget = MaxAgreeSteps

NextAgree ==
  \E tools \in ToolSelections, fault \in InitFaults :
    InitCmd(tools, FALSE, "undefined", fault)

SpecAgree == InitAgree /\ [][NextAgree]_vars

(* ---------------------------------------------------------------------- *)
(* The template catalog on its own                                          *)
(* ---------------------------------------------------------------------- *)

\* Ids a workflow filter may hold: catalog workflows and one that is none.
FilterIds == {"propose", "explore", "new", "nonexistent"}

RECURSIVE FiltersUpTo(_)
FiltersUpTo(n) ==
  IF n = 0 THEN { <<>> }
  ELSE FiltersUpTo(n - 1)
       \cup { Append(l, x) : l \in {m \in FiltersUpTo(n - 1) : Len(m) = n - 1},
                             x \in FilterIds }

\* What a call of the two catalog functions returned.
NoListing == [op |-> "none", skillTemplates |-> <<>>, commandTemplates |-> <<>>]

\* A workflow filter (config.workflows stands for the argument), nothing
\* listed yet.
InitCatalog ==
  /\ disk = EmptyDisk
  /\ legacy = NoLegacy
  /\ openspecDir = FALSE
  /\ lastRun = NoListing
  /\ budget = 1
  /\ projectConfig = NoProjectConfig
  /\ config \in { [profile |-> "custom", workflows |-> w, delivery |-> "both"] :
                    w \in {Undefined} \cup {Some(l) : l \in FiltersUpTo(MaxFilterLen)} }

\* getSkillTemplates(filter) and getCommandTemplates(filter)
ListTemplates ==
  /\ budget > 0
  /\ lastRun' = [op |-> "templates",
                 skillTemplates |-> getSkillTemplates(config.workflows),
                 commandTemplates |-> getCommandTemplates(config.workflows)]
  /\ budget' = budget - 1
  /\ UNCHANGED <<disk, config, legacy, openspecDir, projectConfig>>

NextCatalog == ListTemplates

SpecCatalog == InitCatalog /\ [][NextCatalog]_vars

(* ---------------------------------------------------------------------- *)
(* Vocabulary of the properties                                             *)
(* ---------------------------------------------------------------------- *)

SkillDirOf(w) == WORKFLOW_TO_SKILL_DIR[w]

\* Workflows for which the tool holds a SKILL.md / a skill directory / a
\* command file.
SkillsOf(d, t)    == {w \in WorkflowId : SkillFileExists(d, t, SkillDirOf(w))}
SkillDirsOf(d, t) == {w \in WorkflowId : SkillDirExists(d, t, SkillDirOf(w))}
CommandsOf(d, t)  == {w \in WorkflowId : CommandFileExists(d, t, w)}

\* The tool holds, for each enabled kind, the artifacts of exactly W.
ArtifactsExactly(d, t, W, skills, commands) ==
  /\ skills => SkillsOf(d, t) = W /\ SkillDirsOf(d, t) = W
  /\ commands => CommandsOf(d, t) = W

\* The tool is fully reconciled under workflows W and the given kinds, at
\* the current version.
ReconciledUnder(d, t, W, skills, commands) ==
  /\ ArtifactsExactly(d, t, W, skills, commands)
  /\ skills => \A w \in W : d[t].skills[SkillDirOf(w)] = OPENSPEC_VERSION
  /\ ~skills => SkillDirsOf(d, t) = {}
  /\ ~commands => CommandsOf(d, t) = {}

\* The workflows a configuration asks for.
DesiredOf(cfg) ==
  Range(getProfileWorkflows(IF cfg.profile = "unset" THEN "core" ELSE cfg.profile,
                            cfg.workflows)) \cap WorkflowId

\* The marker the probe reads for a tool is absent or not the current version.
Stale(d, t) ==
  LET marker == extractGeneratedByVersion(FirstManagedContent(d, t))
  IN  marker = "null" \/ marker # OPENSPEC_VERSION

NoFailure(run) ==
  /\ \A i \in DOMAIN run.log : run.log[i].ok
  /\ run.failedTools = <<>>

WriteFailed(run, t) ==
  \E i \in DOMAIN run.log :
    run.log[i].op = "write" /\ run.log[i].file.tool = t /\ ~run.log[i].ok

Written(run, file) ==
  \E i \in DOMAIN run.log : run.log[i] = Event("write", file, TRUE)

\* The artifacts a run is to generate for a tool.
DesiredFiles(run, t) ==
  {SkillFile(t, SkillDirOf(w)) :
     w \in {x \in Range(run.desiredWorkflows) : run.shouldGenerateSkills}}
  \cup {getFilePath(t, w) :
     w \in {x \in Range(run.desiredWorkflows) : run.shouldGenerateCommands}}

Reported(names, t) == ToolName(t) \in Range(names)

\* A non-forced or forced update that got past the "no tools" return.
UpdateRan(run) == run.op = "update" /\ run.outcome \in {"upToDate", "done"}

LeftWithoutAction(run, t) ==
  run.outcome = "upToDate" \/ t \notin Range(run.toolsToUpdate)

ABC == {"explore", "new", "propose"}
OnlyA == <<"new">>

(* ---------------------------------------------------------------------- *)
(* Properties                                                               *)
(* ---------------------------------------------------------------------- *)

\* C1: when update is run twice in a row (the second time without force)
\* with the configuration and the version unchanged and no operation fails
\* in either run, the second run writes and deletes nothing.
C1_SecondUpdateWritesNothing ==
  [][ (/\ lastRun.op = "update" /\ NoFailure(lastRun)
       /\ lastRun'.op = "update" /\ ~lastRun'.force /\ NoFailure(lastRun'))
      => (lastRun'.log = <<>> /\ disk' = disk) ]_vars

\* C2: after init --tools T completes in a fresh project under profile core
\* and delivery both, an immediately following non-forced update finds every
\* configured tool up to date and writes or deletes no file.
C2_InitThenUpdateIsNoOp ==
  [][ (/\ lastRun.op = "init" /\ lastRun.outcome = "done"
       /\ Len(lastRun.toolsToUpdate) = 1
       /\ NoFailure(lastRun)
       /\ config.profile = "core" /\ config.delivery = "both"
       /\ lastRun.desiredWorkflows = CORE_WORKFLOWS
       /\ \A t \in GenTools :
            /\ \A w \in SkillDirsOf(disk, t) :
                 Written(lastRun, SkillFile(t, SkillDirOf(w)))
            /\ \A w \in CommandsOf(disk, t) :
                 Written(lastRun, getFilePath(t, w))
       /\ lastRun'.op = "update" /\ ~lastRun'.force)
      => (/\ lastRun'.outcome = "upToDate"
          /\ lastRun'.log = <<>>
          /\ disk' = disk) ]_vars

\* C3 (as claimed): for a tool fully reconciled under custom {A,B,C}, after
\* the configuration is changed to custom {A} and update runs, the tool holds
\* exactly the artifacts of A for every enabled kind.
C3_NarrowingLeavesOnlyA ==
  [][ \A t \in GenTools :
        (/\ lastRun.op = "config"
         /\ config.profile = "custom" /\ config.workflows = Some(OnlyA)
         /\ ReconciledUnder(disk, t, ABC, config.delivery # "commands",
                            config.delivery # "skills")
         /\ UpdateRan(lastRun'))
        => ArtifactsExactly(disk', t, Range(OnlyA), config.delivery # "commands",
                            config.delivery # "skills") ]_vars

\* C3 (amended): for a tool fully reconciled under custom {A,B,C}, after the
\* configuration is changed to custom {A} and update runs, the tool still
\* holds exactly the artifacts of A, B and C for every enabled kind: update
\* prunes nothing of an enabled kind.
C3_NarrowingPrunesNothing ==
  [][ \A t \in GenTools :
        (/\ lastRun.op = "config"
         /\ config.profile = "custom" /\ config.workflows = Some(OnlyA)
         /\ ReconciledUnder(disk, t, ABC, config.delivery # "commands",
                            config.delivery # "skills")
         /\ UpdateRan(lastRun'))
        => ArtifactsExactly(disk', t, ABC, config.delivery # "commands",
                            config.delivery # "skills") ]_vars

\* An update under custom {A} has run on a tool that holds the artifacts of
\* A, B and C of both kinds.
C3_Witness ==
  /\ UpdateRan(lastRun)
  /\ config.profile = "custom" /\ config.workflows = Some(OnlyA)
  /\ lastRun.desiredWorkflows = OnlyA
  /\ \E t \in Range(lastRun.configuredTools) :
       ArtifactsExactly(disk, t, ABC, lastRun.shouldGenerateSkills,
                        lastRun.shouldGenerateCommands)
       /\ lastRun.shouldGenerateSkills /\ lastRun.shouldGenerateCommands

\* C4: for a tool reconciled with delivery both at the current version,
\* after delivery is switched to skills and update runs without reporting the
\* tool as failed, no command file of the tool exists for any catalog
\* workflow and every skill file still exists with the marker it had.
C4_SwitchToSkillsRemovesCommands ==
  [][ \A t \in GenTools :
        (/\ lastRun.op = "config"
         /\ config.delivery = "skills"
         /\ ReconciledUnder(disk, t, DesiredOf(config), TRUE, TRUE)
         /\ lastRun'.op = "update"
         /\ ~Reported(lastRun'.failedTools, t))
        => (/\ CommandsOf(disk', t) = {}
            /\ \A w \in SkillsOf(disk, t) :
                 disk'[t].skills[SkillDirOf(w)] = disk[t].skills[SkillDirOf(w)]) ]_vars

\* C5: after an update that reports a tool as updated, with delivery
\* commands no skill directory of the tool exists for any catalog workflow,
\* and with delivery skills no command file of the tool exists for any
\* catalog workflow.
C5_DisabledKindRemoved ==
  (lastRun.op = "update" /\ lastRun.outcome = "done")
  => \A t \in Range(lastRun.processed) :
       Reported(lastRun.updatedTools, t)
       => /\ ~lastRun.shouldGenerateSkills => SkillDirsOf(disk, t) = {}
          /\ ~lastRun.shouldGenerateCommands => CommandsOf(disk, t) = {}

\* C6: in a non-forced update every configured tool whose probed marker is
\* absent or differs from the current version is selected for
\* reconciliation, whether or not it has drift.
C6_StaleToolSelected ==
  [][ (UpdateRan(lastRun') /\ ~lastRun'.force)
      => \A t \in Range(lastRun'.configuredTools) :
           Stale(disk, t)
           => (lastRun'.outcome = "done" /\ t \in Range(lastRun'.toolsToUpdate)) ]_vars

\* A non-forced update selected a tool that is stale and has no drift.
C6_Witness ==
  /\ lastRun.op = "update" /\ lastRun.outcome = "done" /\ ~lastRun.force
  /\ \E t \in lastRun.needsUpdate \ lastRun.drift :
       t \in Range(lastRun.toolsToUpdate)

\* The conditions (a) to (d) under which a tool needs no action.
CondA(d, t) == ~Stale(d, t)

CondB(d, t, run) ==
  \A w \in Range(run.desiredWorkflows) :
    /\ run.shouldGenerateSkills => SkillFileExists(d, t, SkillDirOf(w))
    /\ run.shouldGenerateCommands => CommandFileExists(d, t, w)

CondC(d, t, run) ==
  \A w \in WorkflowId \ Range(run.desiredWorkflows) :
    /\ run.shouldGenerateSkills => ~SkillDirExists(d, t, SkillDirOf(w))
    /\ run.shouldGenerateCommands => ~CommandFileExists(d, t, w)

CondD(d, t, run) ==
  /\ ~run.shouldGenerateSkills => SkillDirsOf(d, t) = {}
  /\ ~run.shouldGenerateCommands => CommandsOf(d, t) = {}

\* C7 (as claimed): without force a configured tool is left without action
\* if and only if (a), (b), (c) and (d) hold.
C7_NoActionIffABCD ==
  [][ (UpdateRan(lastRun') /\ ~lastRun'.force)
      => \A t \in Range(lastRun'.configuredTools) :
           LeftWithoutAction(lastRun', t)
           <=> (/\ CondA(disk, t) /\ CondB(disk, t, lastRun')
                /\ CondC(disk, t, lastRun') /\ CondD(disk, t, lastRun')) ]_vars

\* C7 (amended): without force a configured tool is left without action if
\* and only if (a) its probed marker is the current version, (b) every
\* desired workflow has its artifact of each enabled kind and (d) no skill
\* directory or command file of a disabled kind exists; artifacts of an
\* enabled kind outside the desired set do not select the tool.
C7_NoActionIffABD ==
  [][ (UpdateRan(lastRun') /\ ~lastRun'.force)
      => \A t \in Range(lastRun'.configuredTools) :
           LeftWithoutAction(lastRun', t)
           <=> (/\ CondA(disk, t) /\ CondB(disk, t, lastRun')
                /\ CondD(disk, t, lastRun')) ]_vars

\* A non-forced update left alone a tool that holds an artifact of an
\* enabled kind outside the desired set.
C7_Witness ==
  /\ UpdateRan(lastRun) /\ ~lastRun.force
  /\ \E t \in Range(lastRun.configuredTools) :
       /\ LeftWithoutAction(lastRun, t)
       /\ ~CondC(disk, t, lastRun)

\* C8: with force, an update that finds configured tools never takes the
\* up-to-date return, selects every configured tool, and writes every desired
\* artifact of each tool none of whose writes fails.
C8_ForceRegeneratesAll ==
  (lastRun.op = "update" /\ lastRun.force
     /\ lastRun.outcome \notin {"threw", "noTools"})
  => /\ lastRun.outcome = "done"
     /\ lastRun.toolsToUpdate = lastRun.configuredTools
     /\ \A t \in Range(lastRun.configuredTools) \cap GenTools :
          /\ t \in Range(lastRun.processed)
          /\ ~WriteFailed(lastRun, t)
             => \A file \in DesiredFiles(lastRun, t) : Written(lastRun, file)

\* A forced update rewrote a tool that was at the current version and had no
\* drift.
C8_Witness ==
  /\ lastRun.op = "update" /\ lastRun.force /\ lastRun.outcome = "done"
  /\ \E t \in Range(lastRun.configuredTools) \ (lastRun.needsUpdate \cup lastRun.drift) :
       /\ Reported(lastRun.updatedTools, t)
       /\ DesiredFiles(lastRun, t) # {}
       /\ \A file \in DesiredFiles(lastRun, t) : Written(lastRun, file)

\* C9: in an update that selects two tools X and Y, where a write for X
\* fails and no write for Y fails, X is reported failed, Y is reported
\* updated, and every desired artifact of Y is on disk afterwards, in either
\* processing order.
C9_FailureIsolated ==
  (lastRun.op = "update" /\ lastRun.outcome = "done")
  => \A X, Y \in Range(lastRun.toolsToUpdate) \cap GenTools :
       (X # Y /\ WriteFailed(lastRun, X) /\ ~WriteFailed(lastRun, Y))
       => /\ Reported(lastRun.failedTools, X)
          /\ ~Reported(lastRun.updatedTools, X)
          /\ Reported(lastRun.updatedTools, Y)
          /\ ~Reported(lastRun.failedTools, Y)
          /\ \A file \in DesiredFiles(lastRun, Y) : Exists(disk, file)

\* The first tool's writes failed and the second tool was written.
C9_Witness ==
  /\ lastRun.op = "update" /\ lastRun.outcome = "done"
  /\ Len(lastRun.processed) = 2
  /\ WriteFailed(lastRun, lastRun.processed[1])
  /\ ~WriteFailed(lastRun, lastRun.processed[2])
  /\ Reported(lastRun.updatedTools, lastRun.processed[2])
  /\ DesiredFiles(lastRun, lastRun.processed[2]) # {}

\* C10: an update in a project with the openspec directory returns (it does
\* not raise), and every selected tool with generation support is processed
\* exactly once and ends in exactly one of updated and failed.
C10_RunCompletes ==
  (lastRun.op = "update" /\ openspecDir)
  => /\ lastRun.outcome \in {"noTools", "upToDate", "done"}
     /\ \A t \in Range(lastRun.toolsToUpdate) \cap GenTools :
          /\ Count(lastRun.processed, t) = 1
          /\ Count(lastRun.updatedTools, ToolName(t))
               + Count(lastRun.failedTools, ToolName(t)) = 1

\* An update over two tools ended with one failed and one updated.
C10_Witness ==
  /\ lastRun.op = "update" /\ lastRun.outcome = "done"
  /\ Len(lastRun.toolsToUpdate) = 2
  /\ lastRun.failedTools # <<>>
  /\ lastRun.updatedTools # <<>>

DeleteFailed(run, t) ==
  \E i \in DOMAIN run.log :
    run.log[i].op = "delete" /\ run.log[i].file.tool = t /\ ~run.log[i].ok

\* C11: when the removal of a skill directory or a command file fails during
\* an init or update run, the failure is recorded against the tool: the tool
\* is reported as failed in the run summary and is not reported as updated.
C11_DeleteFailureRecorded ==
  \A t \in GenTools :
    (lastRun.op \in {"update", "init"} /\ DeleteFailed(lastRun, t))
    => /\ Reported(lastRun.failedTools, t)
       /\ ~Reported(lastRun.updatedTools, t)

\* The exit status of the CLI: a command that raises or aborts exits with 1.
exitCode(run) == IF run.outcome \in {"threw", "exited"} THEN 1 ELSE 0

\* C12: an update run in a project without the openspec directory fails
\* with an error before any mutation: no legacy cleanup, no migration of the
\* persisted configuration, no artifact written or deleted; the CLI exits
\* with a non-zero status.
C12_MissingDirFailsBeforeMutation ==
  [][ (lastRun'.op = "update" /\ ~openspecDir)
      => /\ lastRun'.outcome = "threw"
         /\ exitCode(lastRun') # 0
         /\ disk' = disk /\ config' = config /\ legacy' = legacy
         /\ ~lastRun'.legacyCleaned
         /\ lastRun'.legacyLog = <<>> /\ lastRun'.log = <<>> ]_vars

\* A forced update failed on the missing directory in a project where the
\* legacy cleanup, the migration and the reconciliation all had work to do.
C12_Witness ==
  /\ lastRun.op = "update" /\ lastRun.outcome = "threw" /\ lastRun.force
  /\ ~openspecDir
  /\ detectLegacyArtifacts(legacy).hasLegacyArtifacts
  /\ config.profile = "unset"
  /\ getConfiguredToolsForUpdate(disk) # <<>>
  /\ \E t \in GenTools : Stale(disk, t)

\* C13: when init is given a --profile value other than core and custom, it
\* raises a validation error, and when the error is raised nothing has been
\* mutated: no legacy cleanup has run, the persisted configuration has not
\* been written by the migration, and no directory or artifact was created.
C13_InvalidProfileFailsBeforeMutation ==
  [][ (lastRun'.op = "init" /\ lastRun'.outcome = "threw")
      => /\ disk' = disk /\ config' = config /\ legacy' = legacy
         /\ openspecDir' = openspecDir
         /\ ~lastRun'.legacyCleaned ]_vars

\* C14: getProfileWorkflows returns the fixed core list (propose, explore,
\* apply, archive) whenever the profile is not 'custom', whatever the custom
\* list holds and also for a profile string that is neither core nor custom;
\* for 'custom' it returns the custom list as it is, and the empty list when
\* the custom list is absent or empty.
C14_ProfileWorkflows ==
  lastRun.op = "resolve"
  => /\ config.profile # "custom"
          => lastRun.desiredWorkflows = <<"propose", "explore", "apply", "archive">>
     /\ (config.profile = "custom" /\ config.workflows.defined)
          => lastRun.desiredWorkflows = config.workflows.ids
     /\ (config.profile = "custom" /\ ~config.workflows.defined)
          => lastRun.desiredWorkflows = <<>>

\* An unrecognised profile with a non-empty custom list was resolved.
C14_Witness ==
  /\ lastRun.op = "resolve"
  /\ config.profile = "minimal"
  /\ config.workflows.defined /\ Len(config.workflows.ids) = MaxListLen
  /\ lastRun.desiredWorkflows = CORE_WORKFLOWS

\* C15: for every tool processed by an init or update run, skill files are
\* generated exactly when delivery is not 'commands' and command files
\* exactly when delivery is not 'skills'; no tool is exempt.
C15_DeliveryDecidesKinds ==
  (lastRun.op \in {"init", "update"} /\ lastRun.outcome = "done")
  => \A t \in Range(lastRun.processed) \cap GenTools :
       \A w \in Range(lastRun.desiredWorkflows) \cap WorkflowId :
         ~WriteFailed(lastRun, t)
         => /\ Written(lastRun, SkillFile(t, SkillDirOf(w)))
                 <=> (config.delivery # "commands")
            /\ Written(lastRun, getFilePath(t, w))
                 <=> (config.delivery # "skills")

\* The same for update runs alone.
C15_UpdateDeliveryDecidesKinds ==
  lastRun.op = "update" => C15_DeliveryDecidesKinds

\* The catalog workflows with a SKILL.md for some tool.
InstalledWorkflows(d) == UNION {SkillsOf(d, t) : t \in GenTools}

\* The workflows whose SKILL.md the legacy upgrade of a run wrote.
UpgradedWorkflows(run) ==
  {w \in WorkflowId :
     \E t \in GenTools :
       \E i \in DOMAIN run.legacyLog :
         run.legacyLog[i] = Event("write", SkillFile(t, SkillDirOf(w)), TRUE)}

\* The run gets as far as the call of migrateIfNeeded.
MigrationReached(run, hasOpenspecDir) ==
  /\ run.op \in {"update", "init"}
  /\ hasOpenspecDir
  /\ run.outcome \notin {"exited", "noTools"}

\* C16: when the persisted configuration has no profile key and at least one
\* workflow of the current schema is installed for a tool handed to
\* migrateIfNeeded, the migration persists profile 'custom' with a workflow
\* list that is, as a set, the union of the workflows installed across those
\* tools (the delivery is kept).
C16_MigrationPersistsInstalled ==
  [][ (/\ config.profile = "unset"
       /\ MigrationReached(lastRun', openspecDir)
       /\ InstalledWorkflows(disk) \cup UpgradedWorkflows(lastRun') # {})
      => /\ config'.profile = "custom"
         /\ config'.workflows.defined
         /\ Range(config'.workflows.ids)
              = InstalledWorkflows(disk) \cup UpgradedWorkflows(lastRun')
         /\ config'.delivery = config.delivery
         /\ lastRun'.migrated ]_vars

\* An update over two configured tools migrated the configuration to the
\* two workflows found installed.
C16_Witness ==
  /\ lastRun.op = "update" /\ lastRun.migrated
  /\ Len(lastRun.configuredTools) = 2
  /\ config.profile = "custom"
  /\ Range(config.workflows.ids) = {"explore", "new"}
  /\ lastRun.newlyConfigured = <<>>

C18_NothingInstalledConfigUnchanged ==
  [][ (/\ lastRun'.op \in {"update", "init"}
       /\ config.profile = "unset"
       /\ InstalledWorkflows(disk) = {})
      => config' = config ]_vars

\* C19: init and update change the persisted GlobalConfig only through the
\* migration step, which writes at most once in a run: a run either leaves
\* the configuration as it is or replaces a configuration without profile
\* key by profile 'custom' with a non-empty list of catalog workflows, the
\* delivery kept. A --profile override decides the workflows of that run
\* only and is never persisted.
C19_ConfigWrittenOnlyByMigration ==
  [][ lastRun'.op \in {"update", "init"}
      => /\ ~lastRun'.migrated => config' = config
         /\ lastRun'.migrated
              => /\ config.profile = "unset"
                 /\ config'.profile = "custom"
                 /\ config'.workflows.defined
                 /\ config'.workflows.ids # <<>>
                 /\ Range(config'.workflows.ids) \subseteq WorkflowId
                 /\ config'.delivery = config.delivery ]_vars

\* An init run under --profile core generated the core workflows while the
\* persisted profile stayed custom with the list (new).
C19_Witness ==
  /\ lastRun.op = "init" /\ lastRun.outcome = "done"
  /\ lastRun.desiredWorkflows = CORE_WORKFLOWS
  /\ lastRun.processed # <<>>
  /\ ~lastRun.migrated
  /\ config.profile = "custom" /\ config.workflows = Some(<<"new">>)

\* The lines of a host file that are OpenSpec sentinels.
MarkerLines(lines) ==
  {i \in DOMAIN lines :
     lines[i] \in {OPENSPEC_MARKERS.start, OPENSPEC_MARKERS.end}}

\* C20: the cleanup of a legacy marker block keeps the user's content: for a
\* host file with text before and after the block, the file afterwards holds
\* the text before followed by the text after and neither sentinel; the host
\* file is never deleted, also when the block was all it held.
C20_MarkerCleanupKeepsUserContent ==
  [][ (lastRun'.legacyCleaned /\ legacy.hostExists)
      => /\ legacy'.hostExists
         /\ MarkerLines(legacy'.host) = {}
         /\ \A i, j \in DOMAIN legacy.host :
              (i < j /\ MarkerLines(legacy.host) = {i, j}
               /\ legacy.host[i] = OPENSPEC_MARKERS.start
               /\ legacy.host[j] = OPENSPEC_MARKERS.end)
              => legacy'.host = SubSeq(legacy.host, 1, i - 1)
                                  \o SubSeq(legacy.host, j + 1, Len(legacy.host)) ]_vars

\* A cleanup ran on the file with user content around the block: the two
\* user lines are what is left.
C20_Witness ==
  /\ lastRun.legacyCleaned
  /\ legacy.hostExists
  /\ legacy.host = << "# My Project", "More user content after markers." >>

\* C21: when legacy artifacts are detected, force is not set and no terminal
\* is attached, init ends with a non-zero exit status having cleaned up
\* nothing and generated nothing, while update cleans up nothing, leaves the
\* legacy files in place and goes on to reconcile the configured tools: the
\* configured tools are found as usual and every stale one is processed.
C21_NonInteractiveFallback ==
  [][ (/\ lastRun'.op \in {"init", "update"}
       /\ detectLegacyArtifacts(legacy).hasLegacyArtifacts
       /\ ~lastRun'.force)
      => /\ ~lastRun'.legacyCleaned
         /\ legacy' = legacy
         /\ lastRun'.legacyLog = <<>> /\ lastRun'.newlyConfigured = <<>>
         /\ lastRun'.op = "init"
              => /\ lastRun'.outcome = "exited"
                 /\ exitCode(lastRun') # 0
                 /\ disk' = disk /\ config' = config
                 /\ openspecDir' = openspecDir
                 /\ lastRun'.log = <<>>
         /\ (lastRun'.op = "update" /\ openspecDir)
              => /\ lastRun'.outcome \in {"noTools", "upToDate", "done"}
                 /\ exitCode(lastRun') = 0
                 /\ (lastRun'.outcome = "noTools")
                      <=> (getConfiguredToolsForUpdate(disk) = <<>>)
                 /\ lastRun'.outcome # "noTools"
                      => /\ lastRun'.configuredTools = getConfiguredToolsForUpdate(disk)
                         /\ \A t \in Range(lastRun'.configuredTools) :
                              Stale(disk, t) => t \in Range(lastRun'.processed) ]_vars

\* An unforced update warned about the legacy artifacts, left them where
\* they were and updated a configured tool.
C21_Witness ==
  /\ lastRun.op = "update" /\ ~lastRun.force /\ lastRun.outcome = "done"
  /\ detectLegacyArtifacts(legacy).hasLegacyArtifacts
  /\ legacy.commandDirs # {} /\ hasMarkers(legacy.host)
  /\ ~lastRun.legacyCleaned
  /\ lastRun.updatedTools # <<>>
  /\ \E i \in DOMAIN lastRun.log : lastRun.log[i].ok

\* The tools for which the legacy upgrade of a run attempted a write.
UpgradeTargets(run) ==
  {t \in ToolIds : \E i \in DOMAIN run.legacyLog : run.legacyLog[i].file.tool = t}

\* The tool holds a SKILL.md of a managed skill or a generated command file.
HasCurrentArtifacts(d, t) ==
  t \in GenTools /\ (SkillsOf(d, t) # {} \/ CommandsOf(d, t) # {})

\* C22: in a forced update the tools set up by the legacy-upgrade step are
\* exactly the tools implied by the detected legacy artifacts that have
\* generation support and were not configured by a skill file or a command
\* file; a tool that already holds current artifacts is never set up by the
\* upgrade step and is handled by the normal reconciliation instead.
C22_UpgradeTargetsOnlyCandidates ==
  [][ (/\ lastRun'.op = "update" /\ lastRun'.force /\ openspecDir
       /\ detectLegacyArtifacts(legacy).hasLegacyArtifacts)
      => /\ UpgradeTargets(lastRun')
              = {t \in Range(getToolsFromLegacyArtifacts(detectLegacyArtifacts(legacy))) :
                   t \in GenTools /\ ~HasCurrentArtifacts(disk, t)}
         /\ Range(lastRun'.newlyConfigured) \subseteq UpgradeTargets(lastRun')
         /\ \A t \in GenTools :
              HasCurrentArtifacts(disk, t)
              => /\ t \notin UpgradeTargets(lastRun')
                 /\ t \notin Range(lastRun'.newlyConfigured)
                 /\ lastRun'.outcome = "done"
                 /\ t \in Range(lastRun'.processed) ]_vars

\* A forced update on a project with legacy command directories of claude
\* (holding a current skill), of cursor (holding nothing current) and of a
\* tool without generation support set up cursor alone and updated claude.
C22_Witness ==
  /\ lastRun.op = "update" /\ lastRun.force /\ lastRun.outcome = "done"
  /\ lastRun.legacyCleaned
  /\ UpgradeTargets(lastRun) = {"cursor"}
  /\ lastRun.newlyConfigured = <<"cursor">>
  /\ "claude" \in Range(lastRun.processed)
  /\ Reported(lastRun.updatedTools, "claude")

\* C23: update treats a tool as configured if and only if at least one
\* managed artifact file exists for it, a SKILL.md of a managed skill or a
\* generated command file; a skill directory without SKILL.md does not make
\* a tool configured, and a tool with only command files is configured.
C23_ConfiguredIffArtifactFile ==
  [][ (lastRun'.op = "update" /\ openspecDir /\ lastRun'.legacyLog = <<>>)
      => /\ (lastRun'.outcome = "noTools")
              <=> (\A t \in GenTools : ~HasCurrentArtifacts(disk, t))
         /\ lastRun'.outcome # "noTools"
              => Range(lastRun'.configuredTools)
                   = {t \in ToolIds : HasCurrentArtifacts(disk, t)} ]_vars

\* Under delivery commands an update found claude, which holds command
\* files and no skill directory, and did not find cursor, which holds a
\* skill directory without SKILL.md.
C23_Witness ==
  /\ lastRun.op = "update" /\ lastRun.outcome \in {"upToDate", "done"}
  /\ config.delivery = "commands"
  /\ lastRun.configuredTools = <<"claude">>
  /\ \A i \in DOMAIN lastRun.log : lastRun.log[i].op # "delete"
  /\ SkillDirsOf(disk, "claude") = {} /\ CommandsOf(disk, "claude") # {}
  /\ SkillDirsOf(disk, "cursor") # {} /\ SkillsOf(disk, "cursor") = {}
  /\ CommandsOf(disk, "cursor") = {}

\* The seven workflow ids of the catalog, written out.
SevenWorkflows ==
  {"explore", "new", "continue", "apply", "archive", "verify", "propose"}

\* The entries of a listing have pairwise distinct values of Key.
DistinctBy(entries, Key(_)) ==
  \A i, j \in DOMAIN entries : i # j => Key(entries[i]) # Key(entries[j])

\* sub holds members of full, each once, in the order they have in full.
InOrderOf(sub, full) ==
  /\ \A i \in DOMAIN sub : \E k \in DOMAIN full : full[k] = sub[i]
  /\ \A i, j \in DOMAIN sub :
       i < j => \E k, l \in DOMAIN full : k < l /\ full[k] = sub[i] /\ full[l] = sub[j]

\* C24: getSkillTemplates and getCommandTemplates return all seven entries
\* when the filter is omitted, with pairwise distinct workflow ids and
\* distinct skill directory names; for any filter they return exactly the
\* entries whose id is in the filter, in the relative order of the
\* unfiltered list; ids that are not in the catalog contribute nothing.
C24_CatalogContract ==
  lastRun.op = "templates"
  => LET skills == lastRun.skillTemplates
         commands == lastRun.commandTemplates
         WorkflowIdOf(e) == e.workflowId
         DirNameOf(e) == e.dirName
         IdOf(e) == e.id
         wanted == IF config.workflows.defined
                   THEN Range(config.workflows.ids) \cap SevenWorkflows
                   ELSE SevenWorkflows
     IN  /\ DistinctBy(skills, WorkflowIdOf) /\ DistinctBy(skills, DirNameOf)
         /\ DistinctBy(commands, IdOf)
         /\ {skills[i].workflowId : i \in DOMAIN skills} = wanted
         /\ {commands[i].id : i \in DOMAIN commands} = wanted
         /\ ~config.workflows.defined => Len(skills) = 7 /\ Len(commands) = 7
         /\ InOrderOf(skills, getSkillTemplates(Undefined))
         /\ InOrderOf(commands, getCommandTemplates(Undefined))

\* The filter (propose, nonexistent, explore) gave explore before propose,
\* the order of the unfiltered list, and nothing for the unknown id.
C24_Witness ==
  /\ lastRun.op = "templates"
  /\ config.workflows = Some(<<"propose", "nonexistent", "explore">>)
  /\ Len(lastRun.skillTemplates) = 2
  /\ lastRun.skillTemplates[1].workflowId = "explore"
  /\ lastRun.skillTemplates[2].workflowId = "propose"
  /\ Len(lastRun.commandTemplates) = 2

\* C25: every workflow in CORE_WORKFLOWS is a member of ALL_WORKFLOWS, and
\* ALL_WORKFLOWS has exactly seven distinct workflow ids; so the workflows
\* resolved for the core profile are all workflows of the full list.
C25_CoreSubsetOfAll ==
  /\ \A i \in DOMAIN CORE_WORKFLOWS :
       \E j \in DOMAIN ALL_WORKFLOWS : ALL_WORKFLOWS[j] = CORE_WORKFLOWS[i]
  /\ Len(ALL_WORKFLOWS) = 7
  /\ \A i, j \in DOMAIN ALL_WORKFLOWS :
       i # j => ALL_WORKFLOWS[i] # ALL_WORKFLOWS[j]
  /\ (lastRun.op = "resolve" /\ config.profile = "core")
       => \A i \in DOMAIN lastRun.desiredWorkflows :
            \E j \in DOMAIN ALL_WORKFLOWS :
              ALL_WORKFLOWS[j] = lastRun.desiredWorkflows[i]

\* The core profile was resolved to its four workflows.
C25_Witness ==
  /\ lastRun.op = "resolve"
  /\ config.profile = "core"
  /\ Len(lastRun.desiredWorkflows) = 4
  /\ lastRun.desiredWorkflows = CORE_WORKFLOWS

\* C26: a non-forced update never deletes a managed artifact of a kind that
\* is still being generated, even when it belongs to a workflow outside the
\* desired set: such an artifact is on disk after the run as it was before,
\* and a workflow outside the desired set that is installed for a configured
\* tool is counted by the note "extra workflows not in profile", which
\* counts nothing else.
C26_ExtraWorkflowsReportOnly ==
  [][ (UpdateRan(lastRun') /\ ~lastRun'.force)
      => /\ \A t \in GenTools, w \in WorkflowId :
              /\ lastRun'.shouldGenerateSkills
                   => /\ SkillDirExists(disk, t, SkillDirOf(w))
                           => SkillDirExists(disk', t, SkillDirOf(w))
                      /\ SkillFileExists(disk, t, SkillDirOf(w))
                           => SkillFileExists(disk', t, SkillDirOf(w))
                      /\ w \notin Range(lastRun'.desiredWorkflows)
                           => disk'[t].skills[SkillDirOf(w)] = disk[t].skills[SkillDirOf(w)]
                      /\ (/\ w \notin Range(lastRun'.desiredWorkflows)
                          /\ t \in Range(lastRun'.configuredTools)
                          /\ SkillFileExists(disk, t, SkillDirOf(w)))
                           => w \in Range(lastRun'.extraWorkflows)
              /\ lastRun'.shouldGenerateCommands
                   => /\ CommandFileExists(disk, t, w)
                           => CommandFileExists(disk', t, w)
                      /\ w \notin Range(lastRun'.desiredWorkflows)
                           => disk'[t].commands[w] = disk[t].commands[w]
         /\ \A w \in Range(lastRun'.extraWorkflows) :
              /\ w \notin Range(lastRun'.desiredWorkflows)
              /\ \E t \in Range(lastRun'.configuredTools) :
                   SkillFileExists(disk', t, SkillDirOf(w)) ]_vars

\* Under the core profile a non-forced update rewrote a tool that holds the
\* skill and the command of workflow new: both are still there and the note
\* counts new.
C26_Witness ==
  /\ lastRun.op = "update" /\ lastRun.outcome = "done" /\ ~lastRun.force
  /\ lastRun.desiredWorkflows = CORE_WORKFLOWS
  /\ lastRun.shouldGenerateSkills /\ lastRun.shouldGenerateCommands
  /\ lastRun.extraWorkflows = <<"new">>
  /\ \E t \in Range(lastRun.processed) :
       /\ Reported(lastRun.updatedTools, t)
       /\ SkillFileExists(disk, t, SkillDirOf("new"))
       /\ CommandFileExists(disk, t, "new")
       /\ ~Written(lastRun, SkillFile(t, SkillDirOf("new")))

\* C27: after update reports a tool as updated, for every workflow in the
\* desired set the tool has a skill file embedding the current version if
\* skills are enabled, and a command file if commands are enabled and the
\* tool has a command adapter; no artifact of the tool is created for a
\* workflow outside the desired set.
C27_RegenerationPostcondition ==
  [][ (lastRun'.op = "update" /\ lastRun'.outcome = "done")
      => \A t \in Range(lastRun'.processed) :
           Reported(lastRun'.updatedTools, t)
           => /\ \A w \in Range(lastRun'.desiredWorkflows) :
                   /\ lastRun'.shouldGenerateSkills
                        => disk'[t].skills[SkillDirOf(w)] = OPENSPEC_VERSION
                   /\ (lastRun'.shouldGenerateCommands /\ HasAdapter(t))
                        => CommandFileExists(disk', t, w)
              /\ \A w \in WorkflowId \ Range(lastRun'.desiredWorkflows) :
                   /\ SkillDirExists(disk', t, SkillDirOf(w))
                        => SkillDirExists(disk, t, SkillDirOf(w))
                   /\ CommandFileExists(disk', t, w)
                        => CommandFileExists(disk, t, w) ]_vars

\* The same for the runs in which the legacy upgrade set up no tool.
C27_WithoutLegacyUpgrade ==
  [][ (lastRun'.op = "update" /\ lastRun'.outcome = "done"
       /\ lastRun'.legacyLog = <<>>)
      => \A t \in Range(lastRun'.processed) :
           Reported(lastRun'.updatedTools, t)
           => /\ \A w \in Range(lastRun'.desiredWorkflows) :
                   /\ lastRun'.shouldGenerateSkills
                        => disk'[t].skills[SkillDirOf(w)] = OPENSPEC_VERSION
                   /\ (lastRun'.shouldGenerateCommands /\ HasAdapter(t))
                        => CommandFileExists(disk', t, w)
              /\ \A w \in WorkflowId \ Range(lastRun'.desiredWorkflows) :
                   /\ SkillDirExists(disk', t, SkillDirOf(w))
                        => SkillDirExists(disk, t, SkillDirOf(w))
                   /\ CommandFileExists(disk', t, w)
                        => CommandFileExists(disk, t, w) ]_vars

\* In a log no skill event of a tool follows a command event of that tool.
SkillsBeforeCommands(log) ==
  \A i, j \in DOMAIN log :
    (/\ i < j
     /\ log[i].file.tool = log[j].file.tool
     /\ log[i].file.kind = "command")
    => log[j].file.kind = "command"

ContentOf(d, file) ==
  IF file.kind = "skill" THEN d[file.tool].skills[file.id]
  ELSE d[file.tool].commands[file.id]

\* What a successful write leaves at the place of a managed file.
WrittenContent(file) ==
  IF file.kind = "skill" THEN generateSkillContent(OPENSPEC_VERSION) ELSE TRUE

\* The run wrote or removed the file, in the legacy upgrade or in the loop.
TouchedBy(run, file) ==
  \/ \E i \in DOMAIN run.log : run.log[i].file = file /\ run.log[i].ok
  \/ \E i \in DOMAIN run.legacyLog : run.legacyLog[i].file = file /\ run.legacyLog[i].ok

\* C29: when a write fails while a tool is reconciled, every artifact of that
\* tool written earlier in the same run remains on disk with its new content
\* (nothing is rolled back), the tool is recorded as failed and not as
\* updated, and no file of any other tool is affected: another tool's files
\* change only by that tool's own writes and removals, and another selected
\* tool without a failing write is still reported as updated.
C29_FailedToolLeftPartiallyWritten ==
  [][ lastRun'.op \in {"update", "init"}
      => \A t \in GenTools :
           WriteFailed(lastRun', t)
           => /\ Reported(lastRun'.failedTools, t)
              /\ ~Reported(lastRun'.updatedTools, t)
              /\ \A i \in DOMAIN lastRun'.log :
                   (/\ lastRun'.log[i].op = "write" /\ lastRun'.log[i].ok
                    /\ lastRun'.log[i].file.tool = t)
                   => ContentOf(disk', lastRun'.log[i].file)
                        = WrittenContent(lastRun'.log[i].file)
              /\ \A u \in GenTools \ {t} :
                   /\ \A file \in FilesOf(u) :
                        ~TouchedBy(lastRun', file)
                        => ContentOf(disk', file) = ContentOf(disk, file)
                   /\ (u \in Range(lastRun'.processed) /\ ~WriteFailed(lastRun', u))
                        => Reported(lastRun'.updatedTools, u) ]_vars

\* An update wrote a skill of a tool, failed on a command file of the same
\* tool and reported it as failed; the skill holds the current version, and
\* the other tool was updated.
C29_Witness ==
  /\ lastRun.op = "update" /\ lastRun.outcome = "done"
  /\ \E t \in GenTools :
       /\ WriteFailed(lastRun, t)
       /\ Reported(lastRun.failedTools, t)
       /\ \E w \in WorkflowId :
            /\ Written(lastRun, SkillFile(t, SkillDirOf(w)))
            /\ disk[t].skills[SkillDirOf(w)] = OPENSPEC_VERSION
            /\ ~CommandFileExists(disk, t, w)
       /\ \E u \in GenTools \ {t} : Reported(lastRun.updatedTools, u)

\* C30: in a non-forced update a configured tool that is neither
\* version-stale nor drifted has none of its files written or deleted and is
\* listed as already up to date, also when other tools are reconciled in the
\* same run.
C30_OnlyToolsThatNeedItAreTouched ==
  [][ (UpdateRan(lastRun') /\ ~lastRun'.force)
      => \A t \in Range(lastRun'.configuredTools) :
           (/\ CondA(disk, t) /\ CondB(disk, t, lastRun')
            /\ CondD(disk, t, lastRun'))
           => /\ disk'[t] = disk[t]
              /\ \A i \in DOMAIN lastRun'.log : lastRun'.log[i].file.tool # t
              /\ t \notin Range(lastRun'.processed)
              /\ t \in Range(lastRun'.upToDate) ]_vars

\* A non-forced update rewrote one tool and listed the other, which it left
\* alone, as already up to date.
C30_Witness ==
  /\ lastRun.op = "update" /\ lastRun.outcome = "done" /\ ~lastRun.force
  /\ Len(lastRun.configuredTools) = 2
  /\ Len(lastRun.processed) = 1 /\ Len(lastRun.upToDate) = 1
  /\ lastRun.updatedTools # <<>>
  /\ \E i \in DOMAIN lastRun.log : lastRun.log[i].op = "write" /\ lastRun.log[i].ok
  /\ \A t \in Range(lastRun.upToDate) :
       /\ t \notin Range(lastRun.processed)
       /\ \A i \in DOMAIN lastRun.log : lastRun.log[i].file.tool # t
       /\ CondA(disk, t) /\ CondB(disk, t, lastRun) /\ CondD(disk, t, lastRun)

\* The tools a forced update set up from legacy artifacts.
SetUpFromLegacy(run) ==
  IF run.op = "update" /\ run.force /\ run.outcome \in {"upToDate", "done"}
  THEN Range(run.newlyConfigured) ELSE {}

AllSkillFilesExist(d, t) ==
  \A w \in WorkflowId : SkillFileExists(d, t, SkillDirOf(w))

AllCommandFilesExist(d, t) ==
  \A id \in CommandIds : CommandFileExists(d, t, id)

\* C31 as stated: when a forced update sets up a tool from legacy
\* artifacts, the skill files of all seven catalog workflows and the tool's
\* command files exist for that tool at the end of the run and its legacy
\* command directory is gone, whatever the persisted profile is.
C31_LegacyUpgradeInstallsFullCatalog ==
  \A t \in SetUpFromLegacy(lastRun) :
    /\ AllSkillFilesExist(disk, t)
    /\ AllCommandFilesExist(disk, t)
    /\ t \notin legacy.commandDirs

\* C31 amended: the full catalog of each artifact kind that the persisted
\* delivery enables exists for the tool at the end of the run, the files of
\* a kind the delivery disables are not left behind by the run unless their
\* removal failed, and the legacy command directory is gone, whatever the
\* persisted profile is.
C31_LegacyUpgradeInstallsEnabledKinds ==
  \A t \in SetUpFromLegacy(lastRun) :
    /\ lastRun.shouldGenerateSkills = (config.delivery # "commands")
    /\ lastRun.shouldGenerateCommands = (config.delivery # "skills")
    /\ lastRun.shouldGenerateSkills => AllSkillFilesExist(disk, t)
    /\ lastRun.shouldGenerateCommands => AllCommandFilesExist(disk, t)
    /\ (~lastRun.shouldGenerateSkills /\ ~DeleteFailed(lastRun, t))
         => \A w \in WorkflowId : ~SkillDirExists(disk, t, SkillDirOf(w))
    /\ (~lastRun.shouldGenerateCommands /\ ~DeleteFailed(lastRun, t))
         => \A id \in CommandIds : ~CommandFileExists(disk, t, id)
    /\ t \notin legacy.commandDirs

\* A forced update under profile core and delivery both set up a tool from
\* its legacy command directory: the tool holds all seven skills and its
\* command files, and the directory is gone.
C31_Witness ==
  /\ lastRun.op = "update" /\ lastRun.force /\ lastRun.outcome = "done"
  /\ config.profile = "core" /\ config.delivery = "both"
  /\ \E t \in Range(lastRun.newlyConfigured) :
       /\ AllSkillFilesExist(disk, t) /\ AllCommandFilesExist(disk, t)
       /\ t \notin legacy.commandDirs
       /\ Len(lastRun.desiredWorkflows) < Cardinality(WorkflowId)

\* The catalog artifacts of one kind of a tool, and whether one exists.
SkillDirsOfCatalog(t) == {SkillFile(t, dirName) : dirName \in SkillDirNames}

CommandFilesOfCatalog(t) == {getFilePath(t, id) : id \in CommandIds}

ArtifactExists(d, file) ==
  IF file.kind = "skill" THEN SkillDirExists(d, file.tool, file.id)
  ELSE CommandFileExists(d, file.tool, file.id)

RemovalTargets(call) ==
  IF call.op = "removeCommandFiles" THEN CommandFilesOfCatalog(call.tool)
  ELSE SkillDirsOfCatalog(call.tool)

RemovalCalled(call) ==
  call.op \in {"removeSkillDirs", "initRemoveSkillDirs", "removeCommandFiles"}

\* C32: removeSkillDirs and removeCommandFiles raise no error; applied to a
\* tool with no artifact of that kind they delete nothing and return 0; in
\* general the returned count is the number of catalog artifacts of that
\* kind that existed before the call and were deleted by it.
C32_RemovalIdempotent ==
  [][ RemovalCalled(lastRun')
      => LET targets == RemovalTargets(lastRun')
             deleted == {file \in targets :
                           ArtifactExists(disk, file) /\ ~ArtifactExists(disk', file)}
         IN  /\ ~lastRun'.threw
             /\ lastRun'.removed = Cardinality(deleted)
             /\ (\A file \in targets : ~ArtifactExists(disk, file))
                  => (disk' = disk /\ lastRun'.removed = 0)
             /\ \A t \in GenTools : \A file \in FilesOf(t) :
                  file \notin deleted
                    => ArtifactExists(disk', file) = ArtifactExists(disk, file) ]_vars

\* A removal call deleted artifacts and returned their number, and the same
\* call applied again found nothing and returned 0; another call returned
\* less than what existed because one removal failed.
C32_Witness ==
  /\ RemovalCalled(lastRun) /\ lastRun.removed = 0 /\ lastRun.log = <<>>
  /\ budget = MaxRemovalSteps - 2
  /\ \A file \in RemovalTargets(lastRun) : ~ArtifactExists(disk, file)
  /\ \E file \in FilesOf(lastRun.tool) \ RemovalTargets(lastRun) :
       ArtifactExists(disk, file)

C32_WitnessFailedRemoval ==
  /\ RemovalCalled(lastRun) /\ lastRun.removed = 1 /\ ~lastRun.threw
  /\ \E i \in DOMAIN lastRun.log : ~lastRun.log[i].ok
  /\ \E file \in RemovalTargets(lastRun) : ArtifactExists(disk, file)

ConfigExists(pc) == pc.yaml # "absent" \/ pc.yml # "absent"

\* C33: init never overwrites an existing project config: if
\* openspec/config.yaml or openspec/config.yml exists before init, its
\* content is unchanged after init and the status is 'exists'; a new
\* config.yaml is created only when neither exists and the run is
\* interactive or forced.
C33_InitKeepsExistingConfig ==
  [][ lastRun'.op = "init"
      => /\ ConfigExists(projectConfig)
              => /\ projectConfig' = projectConfig
                 /\ lastRun'.outcome = "done" => lastRun'.configStatus = "exists"
         /\ (projectConfig' # projectConfig \/ lastRun'.configStatus = "created")
              => /\ ~ConfigExists(projectConfig)
                 /\ projectConfig' = [yaml |-> "default", yml |-> "absent"]
                 /\ lastRun'.configStatus = "created"
                 /\ lastRun'.outcome = "done"
                 /\ lastRun'.interactive \/ lastRun'.force ]_vars

\* An init that got through found config.yml written by the user and left
\* it alone.
C33_Witness ==
  /\ lastRun.op = "init" /\ lastRun.outcome = "done"
  /\ lastRun.configStatus = "exists"
  /\ projectConfig = [yaml |-> "absent", yml |-> "user"]
  /\ budget = MaxConfigSteps - 1

\* Inits that created config.yaml: one in a terminal without --force, one
\* with --force and --tools; and a second init that found the created file.
C33_WitnessCreatedInteractive ==
  /\ lastRun.op = "init" /\ lastRun.configStatus = "created"
  /\ lastRun.interactive /\ ~lastRun.force
  /\ projectConfig.yaml = "default"

C33_WitnessCreatedForced ==
  /\ lastRun.op = "init" /\ lastRun.configStatus = "created"
  /\ ~lastRun.interactive /\ lastRun.force
  /\ projectConfig.yaml = "default"

C33_WitnessSkipped ==
  /\ lastRun.op = "init" /\ lastRun.outcome = "done"
  /\ lastRun.configStatus = "skipped"
  /\ ~lastRun.interactive /\ ~lastRun.force
  /\ projectConfig = NoProjectConfig

\* The managed skill and command artifacts a tool holds.
ManagedArtifacts(d, t) ==
  {SkillFile(t, dirName) : dirName \in {n \in SkillDirNames : SkillFileExists(d, t, n)}}
  \cup {getFilePath(t, id) : id \in {c \in CommandIds : CommandFileExists(d, t, c)}}

\* What a forced update without faults makes of the project.
ForcedUpdateOf(d, cfg, lg, hasOpenspecDir) ==
  UpdateExecute(d, cfg, lg, hasOpenspecDir, TRUE, NoFault)

SetUpBy(run, t) ==
  /\ run.outcome = "done"
  /\ t \in Range(run.processed)
  /\ Reported(run.updatedTools, t)

\* Init and a forced update, both successful for tool t and started from
\* the same project in which t is configured, leave t with the same managed
\* artifacts.
AgreeOn(t) ==
  LET u == ForcedUpdateOf(disk, config, legacy, openspecDir)
  IN  (/\ t \in Range(getConfiguredToolsForUpdate(disk))
       /\ lastRun'.op = "init" /\ SetUpBy(lastRun', t)
       /\ SetUpBy(u.run, t))
      => ManagedArtifacts(disk', t) = ManagedArtifacts(u.disk, t)

\* C34: for every tool with generation support and every (profile,
\* workflows, delivery), starting from the same on-disk state in which the
\* tool is configured, the managed skill and command artifacts of the tool
\* after a successful init of the tool are those after a successful forced
\* update.
C34_InitAndUpdateAgree ==
  [][ \A t \in GenTools : AgreeOn(t) ]_vars

\* The same for the tools that init does not treat on their own.
C34_AgreeExceptClaude ==
  [][ \A t \in GenTools \ {"claude"} : AgreeOn(t) ]_vars

\* An init that refreshed cursor, configured before, with skills and
\* commands.
C34_WitnessCursor ==
  /\ lastRun.op = "init" /\ SetUpBy(lastRun, "cursor")
  /\ lastRun.shouldGenerateSkills /\ lastRun.shouldGenerateCommands
  /\ lastRun.desiredWorkflows # <<>>
  /\ \E f \in ManagedArtifacts(disk, "cursor") : f.kind = "skill"
  /\ \E f \in ManagedArtifacts(disk, "cursor") : f.kind = "command"
  /\ \E w \in WorkflowId \ Range(lastRun.desiredWorkflows) :
       SkillFileExists(disk, "cursor", SkillDirOf(w))

\* An update reported tool t as updated and no tool as failed.
UpdatedWithoutFailure(run, t) ==
  /\ run.op = "update" /\ run.outcome = "done"
  /\ run.failedTools = <<>>
  /\ t \in Range(run.processed) /\ Reported(run.updatedTools, t)

ProbeNeedsUpdate(d, t) ==
  getToolVersionStatus(d, t, OPENSPEC_VERSION).needsUpdate

\* C35: if update reports tool T as updated with no failure, a probe of T
\* right after the run yields needsUpdate = false, for every desired
\* workflow set, the empty one and those that exclude installed workflows
\* included.
C35_VersionStateConverges ==
  \A t \in GenTools :
    UpdatedWithoutFailure(lastRun, t) => ~ProbeNeedsUpdate(disk, t)

\* The same for the runs that generate skills and after which every skill
\* file of T belongs to a desired workflow.
C35_ConvergesWhenInstalledSkillsDesired ==
  \A t \in GenTools :
    (/\ UpdatedWithoutFailure(lastRun, t)
     /\ lastRun.shouldGenerateSkills /\ lastRun.desiredWorkflows # <<>>
     /\ \A w \in WorkflowId :
          SkillFileExists(disk, t, SkillDirOf(w))
            => w \in Range(lastRun.desiredWorkflows))
    => ~ProbeNeedsUpdate(disk, t)

C35_WitnessConverged ==
  \E t \in GenTools :
    /\ UpdatedWithoutFailure(lastRun, t) /\ ~ProbeNeedsUpdate(disk, t)
    /\ t \in lastRun.needsUpdate

\* Init reported tool t as created or refreshed under a non-empty desired
\* workflow set.
InitSetUp(run, t) ==
  /\ run.op = "init" /\ run.outcome = "done"
  /\ t \in Range(run.processed) /\ Reported(run.updatedTools, t)
  /\ run.desiredWorkflows # <<>>

LeftConfigured(d, t) ==
  /\ ManagedArtifacts(d, t) # {}
  /\ t \in Range(getConfiguredToolsForUpdate(d))

\* C36: after init reports tool T as created or refreshed with a non-empty
\* desired workflow set, at least one managed artifact of T exists on disk,
\* for every delivery mode, and update detects T as configured.
C36_InitLeavesToolConfigured ==
  \A t \in GenTools : InitSetUp(lastRun, t) => LeftConfigured(disk, t)

\* The same for the tools that init does not treat on their own.
C36_ConfiguredExceptClaude ==
  \A t \in GenTools \ {"claude"} : InitSetUp(lastRun, t) => LeftConfigured(disk, t)

\* Init set up cursor under delivery commands: only command files exist and
\* update's detection finds the tool.
C36_WitnessCursorCommands ==
  /\ InitSetUp(lastRun, "cursor") /\ ~lastRun.shouldGenerateSkills
  /\ LeftConfigured(disk, "cursor")
  /\ \A f \in ManagedArtifacts(disk, "cursor") : f.kind = "command"

\* The number of init's three lists that hold tool t.
ListsHolding(run, t) ==
  Count(run.createdTools, t) + Count(run.refreshedTools, t)
    + Count(run.failedTools, ToolName(t))

\* C37: every tool selected for init ends in exactly one of the lists
\* created, refreshed and failed; a tool whose generation succeeded is in
\* refreshed if and only if it was configured before the run, otherwise in
\* created.
C37_InitResultPartition ==
  [][ (lastRun'.op = "init" /\ lastRun'.outcome = "done")
      => /\ \A t \in Range(lastRun'.toolsToUpdate) :
              /\ ListsHolding(lastRun', t) = 1
              /\ Reported(lastRun'.failedTools, t) <=> WriteFailed(lastRun', t)
              /\ ~WriteFailed(lastRun', t)
                   => /\ t \in Range(lastRun'.refreshedTools)
                           <=> ManagedArtifacts(disk, t) # {}
                      /\ t \in Range(lastRun'.createdTools)
                           <=> ManagedArtifacts(disk, t) = {}
         /\ \A t \in ToolIds \ Range(lastRun'.toolsToUpdate) :
              ListsHolding(lastRun', t) = 0 ]_vars

\* An init of claude and cursor that refreshed one and created the other,
\* and one in which a tool failed while the other was created.
C37_Witness ==
  /\ lastRun.op = "init" /\ lastRun.outcome = "done"
  /\ Len(lastRun.toolsToUpdate) = 2
  /\ Len(lastRun.createdTools) = 1 /\ Len(lastRun.refreshedTools) = 1
  /\ lastRun.failedTools = <<>>

C37_WitnessFailed ==
  /\ lastRun.op = "init" /\ lastRun.outcome = "done"
  /\ Len(lastRun.toolsToUpdate) = 2
  /\ Len(lastRun.failedTools) = 1
  /\ Len(lastRun.createdTools) + Len(lastRun.refreshedTools) = 1

\* A successful write or delete of the run, in the legacy upgrade or in the
\* per-tool loop, below tool t; and any attempt at one.
TouchedTool(run, t) ==
  \/ \E i \in DOMAIN run.log : run.log[i].file.tool = t /\ run.log[i].ok
  \/ \E i \in DOMAIN run.legacyLog :
       run.legacyLog[i].file.tool = t /\ run.legacyLog[i].ok

AttemptedTool(run, t) ==
  \/ \E i \in DOMAIN run.log : run.log[i].file.tool = t
  \/ \E i \in DOMAIN run.legacyLog : run.legacyLog[i].file.tool = t

\* The tool's directory exists, no managed artifact file and no legacy
\* artifact of the tool does.
BareTool(d, lg, t) ==
  /\ ToolDirExists(d, t)
  /\ ManagedArtifacts(d, t) = {}
  /\ t \notin lg.commandDirs

UpdateWritesOnlyConfigured ==
  \A t \in GenTools :
    (TouchedTool(lastRun', t) \/ disk'[t] # disk[t])
      => t \in Range(lastRun'.configuredTools)

BareToolUntouched(t) ==
  /\ disk'[t] = disk[t]
  /\ ~AttemptedTool(lastRun', t)
  /\ t \notin Range(lastRun'.processed)
  /\ t \notin Range(lastRun'.configuredTools)

C38_WitnessNoTools ==
  /\ lastRun.op = "update" /\ lastRun.outcome = "noTools"
  /\ lastRun.newTools = <<>>
  /\ \E t \in GenTools : BareTool(disk, legacy, t)

\* The (workflowId, dirName) pairs of a table and of the template catalog.
PairsOfTable(table) == {<<w, table[w]>> : w \in DOMAIN table}

PairsOfCatalog ==
  {<<SkillTemplateCatalog[i].workflowId, SkillTemplateCatalog[i].dirName>> :
     i \in DOMAIN SkillTemplateCatalog}

SkillsRemovalCalled(call) ==
  call.op \in {"removeSkillDirs", "initRemoveSkillDirs"}

RemovalFailed(call) == \E i \in DOMAIN call.log : ~call.log[i].ok

\* C39: the three workflow-to-skill-directory tables (migration, update,
\* init) have the key set ALL_WORKFLOWS, map every workflow to the same
\* directory name and agree with the (workflowId, dirName) pairs of the skill
\* template catalog; so the scan finds exactly the workflows whose generated
\* SKILL.md exists, and either removal, when nothing fails, leaves no skill
\* directory of the catalog behind.
C39_SkillDirTablesAgree ==
  /\ DOMAIN WORKFLOW_TO_SKILL_DIR = Range(ALL_WORKFLOWS)
  /\ DOMAIN MIGRATION_WORKFLOW_TO_SKILL_DIR = Range(ALL_WORKFLOWS)
  /\ DOMAIN INIT_WORKFLOW_TO_SKILL_DIR = Range(ALL_WORKFLOWS)
  /\ Range(MIGRATION_WORKFLOW_ORDER) = Range(ALL_WORKFLOWS)
  /\ PairsOfTable(WORKFLOW_TO_SKILL_DIR) = PairsOfCatalog
  /\ PairsOfTable(MIGRATION_WORKFLOW_TO_SKILL_DIR) = PairsOfCatalog
  /\ PairsOfTable(INIT_WORKFLOW_TO_SKILL_DIR) = PairsOfCatalog
  /\ Cardinality(PairsOfCatalog) = Len(SkillTemplateCatalog)
  /\ \A t \in GenTools :
       Range(scanInstalledWorkflowsShared(disk, <<t>>))
         = {SkillTemplateCatalog[i].workflowId :
              i \in {j \in DOMAIN SkillTemplateCatalog :
                       SkillFileExists(disk, t, SkillTemplateCatalog[j].dirName)}}
  /\ (SkillsRemovalCalled(lastRun) /\ ~RemovalFailed(lastRun))
       => \A dirName \in SkillDirNames : ~SkillDirExists(disk, lastRun.tool, dirName)

\* init's removal took away the seven skill directories of a tool that held
\* the whole catalog.
C39_Witness ==
  /\ lastRun.op = "initRemoveSkillDirs" /\ lastRun.removed = 7
  /\ \A dirName \in SkillDirNames : ~SkillDirExists(disk, lastRun.tool, dirName)
  /\ \E id \in CommandIds : CommandFileExists(disk, lastRun.tool, id)

====
